---- MODULE Spec2Model ----
(***************************************************************************)
(* State-machine model of the three-node fuel-supply control link:         *)
(*   - the field controller's cooperative loop (link poll, sample, mode    *)
(*     compute, safety clamp, apply, telemetry TX);                        *)
(*   - the ground relay's loop (radio RX with Ack matching, reliable       *)
(*     downlink retry service, RX watchdog, USB shell submission);         *)
(*   - the air relay's loop (heartbeat, UART RX into the two radio TX      *)
(*     slots, radio RX with the downlink whitelist, radio TX service);     *)
(*   - the frame codec (CRC-16, encode, streaming parser) and the          *)
(*     time-proportional valve driver, each exercised on its own;         *)
(*   - the three nodes together, for one command and its Ack.              *)
(* Each node is a single-threaded loop; a loop iteration is sequenced by a *)
(* program counter so that the order of the calls in loop() is kept.       *)
(***************************************************************************)
EXTENDS Integers, Sequences, FiniteSets, TLC

(***************************************************************************)
(* Machine arithmetic                                                      *)
(***************************************************************************)
\* A uint32_t is held as <<high 16 bits, low 16 bits>>, so that the full
\* 32-bit range and its wrap are represented exactly.
W16 == 65536

\* the uint32_t with value n, for 0 <= n < 2^31
u32(n) == <<n \div W16, n % W16>>

\* unsigned 32-bit sum a + b (wraps at 2^32)
Add32(a, b) ==
    LET lo == a[2] + b[2]
        hi == a[1] + b[1] + (lo \div W16)
    IN  <<hi % W16, lo % W16>>

\* unsigned 32-bit difference a - b (wraps at 2^32)
Sub32(a, b) ==
    LET lo == a[2] - b[2]
        borrow == IF lo < 0 THEN 1 ELSE 0
        hi == a[1] - b[1] - borrow
    IN  <<(hi + 2 * W16) % W16, (lo + W16) % W16>>

\* unsigned comparisons
Lt32(a, b) == a[1] < b[1] \/ (a[1] = b[1] /\ a[2] < b[2])
Ge32(a, b) == ~Lt32(a, b)
Gt32(a, b) == Lt32(b, a)
Le32(a, b) == ~Lt32(b, a)

\* uint8_t range: 2^8
U8 == 256

\* (flags & mask) != 0 for a one-bit mask
HasFlag(flags, mask) == ((flags \div mask) % 2) = 1

(***************************************************************************)
(* Floats are modelled by integers plus the special value the safety       *)
(* stage distinguishes: NaN (every comparison is false).                   *)
(***************************************************************************)
NaN == 1000001

isnan(x) == x = NaN

\* a > b on floats: false when either side is NaN
FGt(a, b) == ~isnan(a) /\ ~isnan(b) /\ a > b

(***************************************************************************)
(* Message catalogue (Protocol.h)                                          *)
(***************************************************************************)
MSG_TELEM_V1 == 1
MSG_MODE_SWITCH == 16
MSG_SETPOINTS_V1 == 17
MSG_MANUAL_CMD_V1 == 18
MSG_ACK == 32
MSG_HEARTBEAT == 35
\* a message type outside the catalogue
MSG_UNKNOWN == 127

MODE_SAFE == 0
MODE_MANUAL == 1
MODE_AUTO == 2

ACK_OK == 0
ACK_ERR == 1

\* sizeof of the packed payload structs
SIZEOF_ModeSwitch == 1
SIZEOF_Ack == 2
SIZEOF_ManualCmdV1 == 13
SIZEOF_SetpointsV1 == 17
SIZEOF_TelemetryV1 == 33

MAN_FLAG_HEATER == 1
MAN_FLAG_VALVE == 2
MAN_FLAG_PUMP == 4

SP_ENABLE_TEMP == 1
SP_ENABLE_PRESSURE == 2
SP_ENABLE_VALVE == 4

(***************************************************************************)
(* Controller configuration (BoardConfig.h, SafetyManager.h)               *)
(***************************************************************************)
TELEMETRY_PERIOD_MS == 200
LINK_TIMEOUT_MS == 1500
max_temp_c_ == 80

(***************************************************************************)
(* Ground relay configuration (BoardConfig)                                *)
(***************************************************************************)
CMD_ACK_TIMEOUT_MS == 400
CMD_MAX_RETRY == 3

(***************************************************************************)
(* Bounds of the model                                                     *)
(***************************************************************************)
\* controller: loop iterations started plus frames handled, over a run
MaxCtrlWork == 5

\* ground relay: loop iterations in which a line may be typed (the first ones)
MaxGndTyping == 2

\* ground relay: lines typed plus radio packets received, over a run
MaxGndEvents == 2

\* ground relay: TX attempts the radio answers with BUSY, over a run
MaxGndBusy == 2

\* ground relay: loop iterations that follow those in which lines may be typed
MaxGndDrain == 8

\* frame codec: octets of an enumerated payload
MaxPayloadLen == 2

\* frame codec: octets of garbage fed before a frame
MaxGarbageLen == 3

\* valve driver: calls of setOpeningPct
MaxValveCalls == 4

\* valve driver: long periods during which the valve is held closed
MaxValveHolds == 2

\* valve driver: cycles of a run at a constant percent
MaxValveCycles == 10

\* air relay: loop iterations
MaxAirTicks == 2

\* air relay: frames the parser yields in one handleUartRx call
MaxAirBatch == 2

\* air relay: loop() iterations while telemetry frames arrive on the UART
MaxAirTelemTicks == 3

\* air relay: loop() iterations while raw sniff mode is switched on and off
MaxAirRawTicks == 3

\* ground relay: radio packets read as octets
MaxGndRxPackets == 2

\* link: loop() iterations of the air relay while a command and its Ack pass
MaxLinkAirTicks == 3

\* calls of sendEx in one behaviour
MaxRadioCalls == 3

\* waits between calls of sendEx in one behaviour
MaxRadioTicks == 3

\* milliseconds since the last transmission are counted up to this value
RadioSinceCap == 10

VARIABLES
    c_pc,               \* controller: position in loop() ("idle" | "poll")
    c_now_ms,           \* controller: now_ms captured at the top of loop()
    g_state,            \* controller: ControlState
    g_telem,            \* controller: Proto::Telemetry (temp_count, temp_c)
    g_out,              \* controller: Proto::Outputs
    g_last_telem_tx_ms, \* controller: time of the last telemetry TX
    tx_seq_,            \* controller: UartLink telemetry sequence counter
    c_uart_tx,          \* controller: frames written to the UART by the last step
    c_hist,             \* controller: what this tick did (observation only)
    gnd_pc,             \* ground: position in loop() ("idle" | "svc" | "shell")
    gnd_clock,          \* ground: millis()
    gnd_now_ms,         \* ground: now_ms captured at the top of loop()
    g_pending,          \* ground: PendingCmd
    g_tx_seq,           \* ground: sequence number of the next frame
    g_man,              \* ground: PayloadManualCmdV1 kept by the shell
    g_sp,               \* ground: PayloadSetpointsV1 kept by the shell
    g_lora_raw,         \* ground: raw sniffing is on
    g_last_lora_pkt_ms, \* ground: millis() at the last radio packet
    g_last_lora_reinit_ms, \* ground: now_ms of the last watchdog reinit
    gnd_lines,          \* ground: lines printed by the last step
    gnd_hist,           \* ground: what was done so far (observation only)
    cd_parser,          \* codec: FrameCodec::Parser (state_, len_, body_)
    cd_in,              \* codec: octets not yet fed to the parser
    cd_fed,             \* codec: number of octets fed
    cd_out,             \* codec: frames emitted, each with the count of the octet that emitted it
    cd_case,            \* codec: the input case (observation only)
    v_clock,            \* valve: millis() (uint32)
    v_pin,              \* valve: level last written to the valve pin
    cycle_start_ms_,    \* valve: ValveDriver::cycle_start_ms_ (uint32)
    last_pct_,          \* valve: ValveDriver::last_pct_
    v_hist,             \* valve: calls made and the last arguments (observation only)
    a_pc,               \* air: position in loop()
    a_clock,            \* air: millis() (uint32)
    a_now_ms,           \* air: now_ms of the current loop iteration
    a_tx_seq,           \* air: g_tx_seq
    g_last_hb_ms,       \* air: time of the last heartbeat to the controller
    g_tx_hi_buf,        \* air: high-priority slot, octets 0..g_tx_hi_len-1
    g_tx_telem_buf,     \* air: telemetry slot, octets 0..g_tx_telem_len-1
    g_last_telem_lora_ms, \* air: time of the last telemetry sent by radio
    g_last_downlink_ms, \* air: time of the last downlink forwarded
    g_lora_ok,          \* air: LoRaLink::begin succeeded
    a_lora_raw,         \* air: g_lora_raw (raw sniff mode)
    g_uart_drop_downlink, \* air: frames dropped because Serial1 had no room
    a_uart_tx,          \* air: what each Serial1.write of the last step wrote
    air_hist,           \* air: what was done so far (observation only)
    g_rx_parser,        \* ground: FrameCodec::Parser fed with the octets of the radio packets
    gr_hist,            \* ground: radio packets read as octets (observation only)
    ln_stage,           \* link: where the command or its Ack is on its way
    ln_wire,            \* link: the octets on the radio or on the UART
    ln_hist,            \* link: the command typed, the Ack written (observation only)
    rl_clock,           \* air radio driver: millis()
    g_last_tx_ms,       \* air radio driver: millis() when the last transmission finished
    rl_hist             \* air radio driver: calls and their results (observation only)

ctrlVars == <<c_pc, c_now_ms, g_state, g_telem, g_out, g_last_telem_tx_ms,
              tx_seq_, c_uart_tx, c_hist>>

gndVars == <<gnd_pc, gnd_clock, gnd_now_ms, g_pending, g_tx_seq, g_man, g_sp, g_lora_raw,
             g_last_lora_pkt_ms, g_last_lora_reinit_ms, gnd_lines, gnd_hist>>

codecVars == <<cd_parser, cd_in, cd_fed, cd_out, cd_case>>

valveVars == <<v_clock, v_pin, cycle_start_ms_, last_pct_, v_hist>>

airVars == <<a_pc, a_clock, a_now_ms, a_tx_seq, g_last_hb_ms, g_tx_hi_buf,
            g_tx_telem_buf, g_last_telem_lora_ms, g_last_downlink_ms, g_lora_ok,
            a_lora_raw, g_uart_drop_downlink, a_uart_tx, air_hist>>

gndRxVars == <<g_rx_parser, gr_hist>>

linkVars == <<ln_stage, ln_wire, ln_hist>>

radioVars == <<rl_clock, g_last_tx_ms, rl_hist>>

vars == <<c_pc, c_now_ms, g_state, g_telem, g_out, g_last_telem_tx_ms,
          tx_seq_, c_uart_tx, c_hist,
          gnd_pc, gnd_clock, gnd_now_ms, g_pending, g_tx_seq, g_man, g_sp, g_lora_raw,
          g_last_lora_pkt_ms, g_last_lora_reinit_ms, gnd_lines, gnd_hist,
          cd_parser, cd_in, cd_fed, cd_out, cd_case,
          v_clock, v_pin, cycle_start_ms_, last_pct_, v_hist,
          a_pc, a_clock, a_now_ms, a_tx_seq, g_last_hb_ms, g_tx_hi_buf,
          g_tx_telem_buf, g_last_telem_lora_ms, g_last_downlink_ms, g_lora_ok,
          a_lora_raw, g_uart_drop_downlink, a_uart_tx, air_hist,
          g_rx_parser, gr_hist,
          ln_stage, ln_wire, ln_hist,
          rl_clock, g_last_tx_ms, rl_hist>>

(***************************************************************************)
(* Controller: data                                                        *)
(***************************************************************************)
\* Proto::ManualCmd{} as default-constructed
ManualCmdDefault ==
    [has_heater_cmd |-> FALSE, heater_power_pct |-> 0,
     has_valve_cmd |-> FALSE, valve_opening_pct |-> 0,
     has_pump_temp_cmd |-> FALSE, pump_target_temp_c |-> 0]

\* Proto::Setpoints{} as default-constructed
SetpointsDefault ==
    [target_temp_c |-> 0, target_pressure_pa |-> 0,
     target_valve_opening_pct |-> 0, target_pump_temp_c |-> 0,
     enable_temp_ctrl |-> TRUE, enable_pressure_ctrl |-> FALSE,
     enable_valve_ctrl |-> FALSE, enable_pump_ctrl |-> FALSE]

\* ControlState after reset()
ControlStateReset ==
    [mode |-> "SAFE", setpoints |-> SetpointsDefault, manual_cmd |-> ManualCmdDefault,
     last_cmd_ms |-> u32(0), last_setpoint_ms |-> u32(0), last_manual_ms |-> u32(0),
     link_alive |-> FALSE, last_link_heartbeat_ms |-> u32(0)]

\* Proto::Outputs{} as default-constructed
OutputsZero == [heater_power_pct |-> 0, valve_opening_pct |-> 0, pump_target_temp_c |-> 0]

(***************************************************************************)
(* Controller: inputs                                                      *)
(***************************************************************************)
\* frame sequence numbers seen on the wire
SeqVals == {7}

\* ModeSwitch payload octets: the three modes and one value outside them
ModeOctets == {MODE_SAFE, MODE_MANUAL, MODE_AUTO, 3}

\* PayloadManualCmdV1 contents put on the wire
ManualPayloads ==
    { [flags |-> 5, heater_power_pct |-> 150, valve_opening_pct |-> 30, pump_target_temp_c |-> 7],
      [flags |-> 2, heater_power_pct |-> 50, valve_opening_pct |-> -5, pump_target_temp_c |-> 250] }

\* PayloadSetpointsV1 contents put on the wire
SetpointPayloads ==
    { [target_temp_c |-> 40, target_pressure_pa |-> 5, target_valve_opening_pct |-> 60,
       target_pump_temp_c |-> 9, enable_mask |-> 5] }

\* an empty or unread payload
NoPayload == [none |-> 0]

\* CRC-valid frames the parser can hand to handleFrame
CtrlFrames ==
    { [msg_type |-> MSG_MODE_SWITCH, seq |-> s, payload_len |-> SIZEOF_ModeSwitch, p |-> [mode |-> m]]
        : s \in SeqVals, m \in ModeOctets }
    \cup { [msg_type |-> MSG_MODE_SWITCH, seq |-> s, payload_len |-> n, p |-> NoPayload]
        : s \in SeqVals, n \in {2} }
    \cup { [msg_type |-> MSG_MANUAL_CMD_V1, seq |-> s, payload_len |-> SIZEOF_ManualCmdV1, p |-> m]
        : s \in SeqVals, m \in ManualPayloads }
    \cup { [msg_type |-> MSG_MANUAL_CMD_V1, seq |-> s, payload_len |-> n, p |-> NoPayload]
        : s \in SeqVals, n \in {12} }
    \cup { [msg_type |-> MSG_SETPOINTS_V1, seq |-> s, payload_len |-> SIZEOF_SetpointsV1, p |-> m]
        : s \in SeqVals, m \in SetpointPayloads }
    \cup { [msg_type |-> MSG_SETPOINTS_V1, seq |-> s, payload_len |-> n, p |-> NoPayload]
        : s \in SeqVals, n \in {4} }
    \cup { [msg_type |-> t, seq |-> s, payload_len |-> 0, p |-> NoPayload]
        : s \in SeqVals, t \in {MSG_HEARTBEAT, MSG_UNKNOWN, MSG_ACK, MSG_TELEM_V1} }

\* what the sensor collaborator can return: temp_count and temp_c[0..1]
\* (at the limit and a NaN; hot on the second channel, counted or not)
TelemSamples ==
    { [temp_count |-> 2, temp_c |-> <<80, NaN>>, pressure_pa |-> 101],
      [temp_count |-> 2, temp_c |-> <<20, 81>>, pressure_pa |-> 101],
      [temp_count |-> 1, temp_c |-> <<20, 81>>, pressure_pa |-> 101] }

\* milliseconds between two loop() entries
CtrlDeltas == {100, 1400, 1600}

\* clock value at which the model starts observing the controller: it has
\* handled no frame since boot and the clock is 1500 ms before its 32-bit wrap
CtrlClockStarts == {Sub32(u32(0), u32(1500))}

(***************************************************************************)
(* UartLink::sendAck: the Ack frame written to the UART                    *)
(***************************************************************************)
sendAck(acked_msg_type, seq, status) ==
    [msg_type |-> MSG_ACK, seq |-> seq, payload_len |-> SIZEOF_Ack,
     p |-> [acked_msg_type |-> acked_msg_type, status |-> status]]

(***************************************************************************)
(* UartLink::handleFrame: the ControlState after the frame                 *)
(***************************************************************************)
\* variant: a mode value outside the enumeration falls back to SAFE
handleFrameModeSwitch_badModeSafe(st, f) ==
    IF f.payload_len = SIZEOF_ModeSwitch
    THEN IF f.p.mode = MODE_MANUAL THEN [st EXCEPT !.mode = "MANUAL"]
         ELSE IF f.p.mode = MODE_AUTO THEN [st EXCEPT !.mode = "AUTO"]
         ELSE [st EXCEPT !.mode = "SAFE"]
    ELSE st

handleFrameModeSwitch(st, f) ==
    IF f.payload_len = SIZEOF_ModeSwitch
    THEN IF f.p.mode = MODE_SAFE THEN [st EXCEPT !.mode = "SAFE"]
         ELSE IF f.p.mode = MODE_MANUAL THEN [st EXCEPT !.mode = "MANUAL"]
         ELSE IF f.p.mode = MODE_AUTO THEN [st EXCEPT !.mode = "AUTO"]
         ELSE st
    ELSE st

\* variant: a ManualCmd also switches the controller to MANUAL
handleFrameManualCmd_switch(st, f, now_ms) ==
    IF f.payload_len = SIZEOF_ManualCmdV1
    THEN [st EXCEPT
            !.mode = "MANUAL",
            !.manual_cmd = [has_heater_cmd |-> HasFlag(f.p.flags, MAN_FLAG_HEATER),
                            has_valve_cmd |-> HasFlag(f.p.flags, MAN_FLAG_VALVE),
                            has_pump_temp_cmd |-> HasFlag(f.p.flags, MAN_FLAG_PUMP),
                            heater_power_pct |-> f.p.heater_power_pct,
                            valve_opening_pct |-> f.p.valve_opening_pct,
                            pump_target_temp_c |-> f.p.pump_target_temp_c],
            !.last_manual_ms = now_ms]
    ELSE st

\* variant: presence flags are OR-ed into the stored ones
handleFrameManualCmd_accum(st, f, now_ms) ==
    IF f.payload_len = SIZEOF_ManualCmdV1
    THEN [st EXCEPT
            !.manual_cmd = [has_heater_cmd |-> @.has_heater_cmd \/ HasFlag(f.p.flags, MAN_FLAG_HEATER),
                            has_valve_cmd |-> @.has_valve_cmd \/ HasFlag(f.p.flags, MAN_FLAG_VALVE),
                            has_pump_temp_cmd |-> @.has_pump_temp_cmd \/ HasFlag(f.p.flags, MAN_FLAG_PUMP),
                            heater_power_pct |-> f.p.heater_power_pct,
                            valve_opening_pct |-> f.p.valve_opening_pct,
                            pump_target_temp_c |-> f.p.pump_target_temp_c],
            !.last_manual_ms = now_ms]
    ELSE st

handleFrameManualCmd(st, f, now_ms) ==
    IF f.payload_len = SIZEOF_ManualCmdV1
    THEN [st EXCEPT
            !.manual_cmd = [has_heater_cmd |-> HasFlag(f.p.flags, MAN_FLAG_HEATER),
                            has_valve_cmd |-> HasFlag(f.p.flags, MAN_FLAG_VALVE),
                            has_pump_temp_cmd |-> HasFlag(f.p.flags, MAN_FLAG_PUMP),
                            heater_power_pct |-> f.p.heater_power_pct,
                            valve_opening_pct |-> f.p.valve_opening_pct,
                            pump_target_temp_c |-> f.p.pump_target_temp_c],
            !.last_manual_ms = now_ms]
    ELSE st

handleFrameSetpoints(st, f, now_ms) ==
    IF f.payload_len = SIZEOF_SetpointsV1
    THEN [st EXCEPT
            !.setpoints = [target_temp_c |-> f.p.target_temp_c,
                           target_pressure_pa |-> f.p.target_pressure_pa,
                           target_valve_opening_pct |-> f.p.target_valve_opening_pct,
                           target_pump_temp_c |-> f.p.target_pump_temp_c,
                           enable_temp_ctrl |-> HasFlag(f.p.enable_mask, SP_ENABLE_TEMP),
                           enable_pressure_ctrl |-> HasFlag(f.p.enable_mask, SP_ENABLE_PRESSURE),
                           enable_valve_ctrl |-> HasFlag(f.p.enable_mask, SP_ENABLE_VALVE),
                           enable_pump_ctrl |-> st.setpoints.enable_pump_ctrl],
            !.last_setpoint_ms = now_ms]
    ELSE st

\* the liveness stamp every CRC-valid frame gets before dispatch
handleFrameStamp(st, now_ms) ==
    [st EXCEPT !.last_cmd_ms = now_ms, !.link_alive = TRUE, !.last_link_heartbeat_ms = now_ms]

handleFrame(st, f, now_ms) ==
    LET s1 == handleFrameStamp(st, now_ms) IN
    IF f.msg_type = MSG_HEARTBEAT THEN s1
    ELSE IF f.msg_type = MSG_MODE_SWITCH THEN handleFrameModeSwitch(s1, f)
    ELSE IF f.msg_type = MSG_MANUAL_CMD_V1 THEN handleFrameManualCmd(s1, f, now_ms)
    ELSE IF f.msg_type = MSG_SETPOINTS_V1 THEN handleFrameSetpoints(s1, f, now_ms)
    ELSE s1

(***************************************************************************)
(* UartLink::handleFrame: the Ack frames it writes (none or one)           *)
(***************************************************************************)
\* variant: a frame of any other type is answered with Ack(ERR)
handleFrameAcks_ackUnknown(f) ==
    IF f.msg_type = MSG_MODE_SWITCH
    THEN IF f.payload_len = SIZEOF_ModeSwitch /\ f.p.mode \in {MODE_SAFE, MODE_MANUAL, MODE_AUTO}
         THEN <<sendAck(f.msg_type, f.seq, ACK_OK)>>
         ELSE <<sendAck(f.msg_type, f.seq, ACK_ERR)>>
    ELSE IF f.msg_type = MSG_MANUAL_CMD_V1
    THEN IF f.payload_len = SIZEOF_ManualCmdV1
         THEN <<sendAck(f.msg_type, f.seq, ACK_OK)>>
         ELSE <<sendAck(f.msg_type, f.seq, ACK_ERR)>>
    ELSE IF f.msg_type = MSG_SETPOINTS_V1
    THEN IF f.payload_len = SIZEOF_SetpointsV1
         THEN <<sendAck(f.msg_type, f.seq, ACK_OK)>>
         ELSE <<sendAck(f.msg_type, f.seq, ACK_ERR)>>
    ELSE <<sendAck(f.msg_type, f.seq, ACK_ERR)>>

handleFrameAcks(f) ==
    IF f.msg_type = MSG_MODE_SWITCH
    THEN IF f.payload_len = SIZEOF_ModeSwitch /\ f.p.mode \in {MODE_SAFE, MODE_MANUAL, MODE_AUTO}
         THEN <<sendAck(f.msg_type, f.seq, ACK_OK)>>
         ELSE <<sendAck(f.msg_type, f.seq, ACK_ERR)>>
    ELSE IF f.msg_type = MSG_MANUAL_CMD_V1
    THEN IF f.payload_len = SIZEOF_ManualCmdV1
         THEN <<sendAck(f.msg_type, f.seq, ACK_OK)>>
         ELSE <<sendAck(f.msg_type, f.seq, ACK_ERR)>>
    ELSE IF f.msg_type = MSG_SETPOINTS_V1
    THEN IF f.payload_len = SIZEOF_SetpointsV1
         THEN <<sendAck(f.msg_type, f.seq, ACK_OK)>>
         ELSE <<sendAck(f.msg_type, f.seq, ACK_ERR)>>
    ELSE <<>>

(***************************************************************************)
(* AutoController::compute (placeholder): zeros                            *)
(***************************************************************************)
AutoCompute(st, telem) == OutputsZero

(***************************************************************************)
(* ModeManager::compute: the mode policy                                   *)
(***************************************************************************)
ModeCompute(st, telem) ==
    IF st.mode = "MANUAL"
    THEN [heater_power_pct |->
              IF st.manual_cmd.has_heater_cmd THEN st.manual_cmd.heater_power_pct ELSE 0,
          valve_opening_pct |->
              IF st.manual_cmd.has_valve_cmd THEN st.manual_cmd.valve_opening_pct ELSE 0,
          pump_target_temp_c |->
              IF st.manual_cmd.has_pump_temp_cmd THEN st.manual_cmd.pump_target_temp_c ELSE 0]
    ELSE IF st.mode = "AUTO" THEN AutoCompute(st, telem)
    ELSE OutputsZero

(***************************************************************************)
(* SafetyManager::checkAndClamp                                            *)
(***************************************************************************)
\* variant: the link times out at exactly LINK_TIMEOUT
LinkTimedOut_ge(st, now_ms) ==
    st.link_alive /\ Ge32(Sub32(now_ms, st.last_link_heartbeat_ms), u32(LINK_TIMEOUT_MS))

\* 1) link timeout
LinkTimedOut(st, now_ms) ==
    st.link_alive /\ Gt32(Sub32(now_ms, st.last_link_heartbeat_ms), u32(LINK_TIMEOUT_MS))

\* variant: only the first channel is checked
OverTemp_firstChannel(telem) ==
    telem.temp_count > 0 /\ FGt(telem.temp_c[1], max_temp_c_)

\* 2) overtemperature on one of the first temp_count channels
OverTemp(telem) ==
    \E i \in 1..telem.temp_count :
        ~isnan(telem.temp_c[i]) /\ FGt(telem.temp_c[i], max_temp_c_)

\* variant: forcing SAFE also forgets the stored ManualCmd
checkAndClampState_clearsManual(st, telem, now_ms) ==
    LET s1 == IF LinkTimedOut(st, now_ms) THEN [st EXCEPT !.link_alive = FALSE] ELSE st
        s2 == IF ~s1.link_alive THEN [s1 EXCEPT !.mode = "SAFE"] ELSE s1
        s3 == IF OverTemp(telem) THEN [s2 EXCEPT !.mode = "SAFE"] ELSE s2
    IN  IF s3.mode = "SAFE" /\ st.mode # "SAFE"
        THEN [s3 EXCEPT !.manual_cmd.has_heater_cmd = FALSE, !.manual_cmd.has_valve_cmd = FALSE,
                        !.manual_cmd.has_pump_temp_cmd = FALSE]
        ELSE s3

\* variant: overtemperature leaves the mode as it is
checkAndClampState_tempKeepsMode(st, telem, now_ms) ==
    LET s1 == IF LinkTimedOut(st, now_ms) THEN [st EXCEPT !.link_alive = FALSE] ELSE st
    IN  IF ~s1.link_alive THEN [s1 EXCEPT !.mode = "SAFE"] ELSE s1

\* the ControlState after the safety stage
checkAndClampState(st, telem, now_ms) ==
    LET s1 == IF LinkTimedOut(st, now_ms) THEN [st EXCEPT !.link_alive = FALSE] ELSE st
        s2 == IF ~s1.link_alive THEN [s1 EXCEPT !.mode = "SAFE"] ELSE s1
    IN  IF OverTemp(telem) THEN [s2 EXCEPT !.mode = "SAFE"] ELSE s2

\* variant: SAFE zeroes the heater and the valve but not the pump target
checkAndClampOut_noPump(st2, out) ==
    IF st2.mode = "SAFE"
    THEN [out EXCEPT !.heater_power_pct = 0, !.valve_opening_pct = 0]
    ELSE out

\* 3) the Outputs after the safety stage, given the mode it left
checkAndClampOut(st2, out) ==
    IF st2.mode = "SAFE" THEN OutputsZero ELSE out

(***************************************************************************)
(* UartLink::sendTelemetry: the telemetry frame written to the UART        *)
(***************************************************************************)
\* variant: the frame carries the Outputs of the previous tick
sendTelemetry_stale(telem, out, now_ms, seq) ==
    [msg_type |-> MSG_TELEM_V1, seq |-> seq, payload_len |-> SIZEOF_TelemetryV1,
     p |-> [timestamp_ms |-> now_ms,
            temp_count |-> IF telem.temp_count > 4 THEN 4 ELSE telem.temp_count,
            temp_c |-> [i \in 1..4 |->
                          IF i <= telem.temp_count /\ i <= Len(telem.temp_c)
                          THEN telem.temp_c[i] ELSE 0],
            pressure_pa |-> telem.pressure_pa,
            heater_power_pct |-> g_out.heater_power_pct,
            valve_opening_pct |-> g_out.valve_opening_pct]]

sendTelemetry(telem, out, now_ms, seq) ==
    [msg_type |-> MSG_TELEM_V1, seq |-> seq, payload_len |-> SIZEOF_TelemetryV1,
     p |-> [timestamp_ms |-> now_ms,
            temp_count |-> IF telem.temp_count > 4 THEN 4 ELSE telem.temp_count,
            temp_c |-> [i \in 1..4 |->
                          IF i <= telem.temp_count /\ i <= Len(telem.temp_c)
                          THEN telem.temp_c[i] ELSE 0],
            pressure_pa |-> telem.pressure_pa,
            heater_power_pct |-> out.heater_power_pct,
            valve_opening_pct |-> out.valve_opening_pct]]

(***************************************************************************)
(* Controller: setup() and loop()                                          *)
(***************************************************************************)
\* no frame handled yet in this tick
NoFrame == [msg_type |-> 0, seq |-> 0, payload_len |-> 0, p |-> NoPayload]

\* a ModeSwitch frame that asks for MANUAL or AUTO with the exact length
IsModeRequest(f) ==
    /\ f.msg_type = MSG_MODE_SWITCH
    /\ f.payload_len = SIZEOF_ModeSwitch
    /\ f.p.mode \in {MODE_MANUAL, MODE_AUTO}

\* a ModeSwitch frame that asks for SAFE with the exact length
IsSafeRequest(f) ==
    /\ f.msg_type = MSG_MODE_SWITCH
    /\ f.payload_len = SIZEOF_ModeSwitch
    /\ f.p.mode = MODE_SAFE

\* a ManualCmd frame with the exact length
IsManualCmd(f) == f.msg_type = MSG_MANUAL_CMD_V1 /\ f.payload_len = SIZEOF_ManualCmdV1

CtrlHistInit ==
    [work |-> 0,                \* loop iterations started plus frames handled
     ticks |-> 0,               \* loop iterations started (saturates at 1)
     last_frame |-> NoFrame,    \* the frame handled by the last step, if it handled one
     mode_request |-> FALSE,    \* a ModeSwitch(MANUAL|AUTO) was handled in this tick
     manual_p |-> NoPayload,    \* payload of the latest accepted ManualCmd
     safe_since |-> "none",     \* how the mode last became SAFE since that ManualCmd
     computed |-> OutputsZero,  \* Outputs of the mode policy, before the safety stage
     poll_link_alive |-> FALSE, \* link_alive after link poll, before the safety stage
     forced |-> "none",         \* why the safety stage last forced SAFE from another mode
     telem_sent |-> FALSE,      \* telemetry was written in this tick
     ever_fed |-> FALSE,        \* some frame has been handled since boot
     last_frame_ms |-> u32(0),  \* now_ms of the tick that handled the last frame
     gap_ok |-> TRUE]           \* no tick ended more than LINK_TIMEOUT after the last frame

CtrlInit ==
    /\ c_pc = "idle"
    /\ c_now_ms \in CtrlClockStarts
    /\ g_state = ControlStateReset
    /\ g_telem = [temp_count |-> 0, temp_c |-> <<0, 0>>, pressure_pa |-> 0]
    /\ g_out = OutputsZero
    /\ g_last_telem_tx_ms = c_now_ms
    /\ tx_seq_ = 0
    /\ c_uart_tx = <<>>
    /\ c_hist = CtrlHistInit

\* loop(): const uint32_t now_ms = millis();
CtrlLoopBegin(dt) ==
    /\ c_pc = "idle"
    /\ c_hist.work < MaxCtrlWork
    /\ c_pc' = "poll"
    /\ c_now_ms' = Add32(c_now_ms, u32(dt))
    /\ c_uart_tx' = <<>>
    /\ c_hist' = [c_hist EXCEPT !.work = @ + 1, !.ticks = 1, !.last_frame = NoFrame,
                                !.mode_request = FALSE, !.telem_sent = FALSE]
    /\ UNCHANGED <<g_state, g_telem, g_out, g_last_telem_tx_ms, tx_seq_>>

\* UartLink::poll: one frame emitted by the parser and handled
CtrlPollFrame(f) ==
    /\ c_pc = "poll"
    /\ c_hist.work < MaxCtrlWork
    /\ g_state' = handleFrame(g_state, f, c_now_ms)
    /\ c_uart_tx' = handleFrameAcks(f)
    /\ c_hist' = [c_hist EXCEPT !.work = @ + 1, !.last_frame = f,
                                !.mode_request = @ \/ IsModeRequest(f),
                                !.forced = IF IsModeRequest(f) THEN "none" ELSE @,
                                !.manual_p = IF IsManualCmd(f) THEN f.p ELSE @,
                                !.safe_since = IF IsManualCmd(f) THEN "none"
                                               ELSE IF IsSafeRequest(f) /\ c_hist.manual_p # NoPayload
                                               THEN "switch" ELSE @,
                                !.ever_fed = TRUE, !.last_frame_ms = c_now_ms]
    /\ UNCHANGED <<c_pc, c_now_ms, g_telem, g_out, g_last_telem_tx_ms, tx_seq_>>

\* loop() after the link poll: sample, compute, safety clamp, apply, telemetry TX
CtrlLoopRest(sample) ==
    /\ c_pc = "poll"
    /\ LET out1 == ModeCompute(g_state, sample)
           st2 == checkAndClampState(g_state, sample, c_now_ms)
           out2 == checkAndClampOut(st2, out1)
           due == Ge32(Sub32(c_now_ms, g_last_telem_tx_ms), u32(TELEMETRY_PERIOD_MS))
       IN  /\ g_telem' = sample
           /\ g_state' = st2
           /\ g_out' = out2
           /\ g_last_telem_tx_ms' = IF due THEN c_now_ms ELSE g_last_telem_tx_ms
           /\ tx_seq_' = IF due THEN (tx_seq_ + 1) % U8 ELSE tx_seq_
           /\ c_uart_tx' = IF due
                           THEN <<sendTelemetry(sample, out2, c_now_ms, tx_seq_)>>
                           ELSE <<>>
           /\ c_hist' = [c_hist EXCEPT
                           !.last_frame = NoFrame,
                           !.computed = out1,
                           !.poll_link_alive = g_state.link_alive,
                           !.forced = IF g_state.mode # "SAFE" /\ st2.mode = "SAFE"
                                      THEN (IF st2.link_alive THEN "temp" ELSE "link")
                                      ELSE @,
                           !.safe_since = IF g_state.mode # "SAFE" /\ st2.mode = "SAFE"
                                             /\ c_hist.manual_p # NoPayload
                                          THEN "forced" ELSE @,
                           !.telem_sent = due,
                           !.gap_ok = @ /\ (c_hist.ever_fed =>
                                              Le32(Sub32(c_now_ms, c_hist.last_frame_ms), u32(LINK_TIMEOUT_MS)))]
    /\ c_pc' = "idle"
    /\ UNCHANGED c_now_ms

CtrlNext ==
    /\ \/ \E dt \in CtrlDeltas : CtrlLoopBegin(dt)
       \/ \E f \in CtrlFrames : CtrlPollFrame(f)
       \/ \E sample \in TelemSamples : CtrlLoopRest(sample)
    /\ UNCHANGED <<gndVars, codecVars, valveVars, radioVars, airVars, gndRxVars, linkVars>>

(***************************************************************************)
(* Ground relay: data                                                      *)
(***************************************************************************)
\* PendingCmd as default-constructed
PendingCmdInit ==
    [active |-> FALSE, msg_type |-> 0, seq |-> 0, frame |-> NoFrame, len |-> 0,
     last_send_ms |-> u32(0), retry |-> 0, sent_once |-> FALSE,
     busy_since_ms |-> u32(0), last_busy_warn_ms |-> u32(0)]

\* g_man and g_sp as initialised
PayloadManualCmdInit ==
    [flags |-> 0, heater_power_pct |-> 0, valve_opening_pct |-> 0, pump_target_temp_c |-> 0]

PayloadSetpointsInit ==
    [target_temp_c |-> 0, target_pressure_pa |-> 0, target_valve_opening_pct |-> 0,
     target_pump_temp_c |-> 0, enable_mask |-> 0]

\* LoRaLink::TxResult
TxResults == {"OK", "BUSY", "FAIL"}

\* one line printed on the USB serial port: its kind and the numbers it shows
Line(k, msg, seq, n) == [k |-> k, msg |-> msg, seq |-> seq, n |-> n]

\* flags |= mask, for a one-bit mask
OrFlag(flags, mask) == IF HasFlag(flags, mask) THEN flags ELSE flags + mask

(***************************************************************************)
(* Ground relay: inputs                                                    *)
(***************************************************************************)
\* milliseconds between two loop() entries
GndDeltas == {400}

\* clock value at which the model starts observing the ground relay: nothing
\* submitted or received since boot, the clock 400 ms before its 32-bit wrap
GndClockStarts == {Sub32(u32(0), u32(400))}

\* Ack frames coming down from the air relay
GndAckFrames ==
    { sendAck(MSG_MODE_SWITCH, 0, ACK_OK), sendAck(MSG_MODE_SWITCH, 0, ACK_ERR),
      sendAck(MSG_MODE_SWITCH, 1, ACK_OK), sendAck(MSG_MANUAL_CMD_V1, 0, ACK_OK) }

\* a frame of type Ack whose payload is not 2 octets long
GndShortAck == [msg_type |-> MSG_ACK, seq |-> 0, payload_len |-> 1, p |-> NoPayload]

\* a telemetry frame (its contents are only printed)
GndTelemFrame ==
    [msg_type |-> MSG_TELEM_V1, seq |-> 0, payload_len |-> SIZEOF_TelemetryV1, p |-> NoPayload]

\* radio packets: the frames the stream parser yields for the packet, and the
\* milliseconds millis() moves on while the packet is read out
GndRxPackets ==
    { [fs |-> <<a>>, slip |-> 0] : a \in GndAckFrames }
    \cup { [fs |-> <<GndShortAck>>, slip |-> 0],
           [fs |-> <<GndTelemFrame>>, slip |-> 0],
           [fs |-> <<GndTelemFrame>>, slip |-> 1],
           [fs |-> <<GndTelemFrame, sendAck(MSG_MODE_SWITCH, 0, ACK_OK)>>, slip |-> 1],
           [fs |-> <<>>, slip |-> 0] }

\* lines typed on the USB serial port
GndShellLines ==
    { [cmd |-> "mode", arg |-> "manual", val |-> 0],
      [cmd |-> "mode", arg |-> "bogus", val |-> 0],
      [cmd |-> "set", arg |-> "heater", val |-> 50],
      [cmd |-> "set", arg |-> "T", val |-> 40],
      [cmd |-> "lora", arg |-> "raw on", val |-> 0] }

(***************************************************************************)
(* FrameCodec::encode: the number of octets written, 0 when they do not fit *)
(***************************************************************************)
encode(payload_len, out_cap) ==
    LET len == (payload_len + 4) % U8
        total == 3 + len
    IN  IF out_cap < total THEN 0 ELSE total

(***************************************************************************)
(* Ground relay: reliable downlink                                         *)
(***************************************************************************)
expectsAck(msg_type) ==
    msg_type \in {MSG_MODE_SWITCH, MSG_MANUAL_CMD_V1, MSG_SETPOINTS_V1}

\* sendRawFrameEx: r is what LoRaLink::sendEx returns for a non-empty buffer
sendRawFrameEx(len, r) == IF len = 0 THEN "FAIL" ELSE r

\* startReliableSend: the PendingCmd, the return value and the TX result
startReliableSend(pend, seq, msg_type, p, payload_len, now, r) ==
    LET n == encode(payload_len, 256)
        res == sendRawFrameEx(n, r)
        installed ==
            [active |-> expectsAck(msg_type), msg_type |-> msg_type, seq |-> seq,
             frame |-> [msg_type |-> msg_type, seq |-> seq, payload_len |-> payload_len, p |-> p],
             len |-> n, last_send_ms |-> u32(0), retry |-> 0, sent_once |-> FALSE,
             busy_since_ms |-> u32(0), last_busy_warn_ms |-> u32(0)]
    IN  IF n = 0
        THEN [pending |-> pend, ret |-> FALSE, tx |-> "NONE"]
        ELSE IF res \in {"OK", "FAIL"}
        THEN [pending |-> [installed EXCEPT !.sent_once = TRUE, !.last_send_ms = now],
              ret |-> (res = "OK"), tx |-> res]
        ELSE [pending |-> [installed EXCEPT !.busy_since_ms = now],
              ret |-> FALSE, tx |-> res]

\* serviceReliableSend, BUSY branch: start the busy timer, warn when it is long
serviceBusy(pend, now_ms) ==
    LET p1 == IF pend.busy_since_ms = u32(0)
              THEN [pend EXCEPT !.busy_since_ms = now_ms] ELSE pend
        warn == /\ Gt32(Sub32(now_ms, p1.busy_since_ms), u32(3000))
                /\ Gt32(Sub32(now_ms, p1.last_busy_warn_ms), u32(1000))
    IN  [pending |-> IF warn THEN [p1 EXCEPT !.last_busy_warn_ms = now_ms] ELSE p1,
         lines |-> IF warn THEN <<Line("CMD_WARNING_BUSY", 0, 0, 0)>> ELSE <<>>,
         tx |-> "BUSY"]

\* serviceReliableSend: the retry TX returned BUSY and is not counted
RetryTxBusy_never(r) == FALSE

RetryTxBusy(r) == r = "BUSY"

\* serviceReliableSend: the retry budget is spent
RetryBudgetSpent_gt(pend) == pend.retry > CMD_MAX_RETRY

RetryBudgetSpent_never(pend) == FALSE

RetryBudgetSpent(pend) == pend.retry >= CMD_MAX_RETRY

\* serviceReliableSend without its first line (the test of active)
serviceReliableSend_ignoreActive(pend, now_ms, r) ==
    IF FALSE
    THEN [pending |-> pend, lines |-> <<>>, tx |-> "NONE"]
    ELSE IF ~pend.sent_once
    THEN LET res == sendRawFrameEx(pend.len, r)
         IN  IF res \in {"OK", "FAIL"}
             THEN [pending |-> [pend EXCEPT !.sent_once = TRUE, !.last_send_ms = now_ms],
                   lines |-> <<>>, tx |-> res]
             ELSE serviceBusy(pend, now_ms)
    ELSE IF Lt32(Sub32(now_ms, pend.last_send_ms), u32(CMD_ACK_TIMEOUT_MS))
    THEN [pending |-> pend, lines |-> <<>>, tx |-> "NONE"]
    ELSE IF RetryBudgetSpent(pend)
    THEN [pending |-> [pend EXCEPT !.active = FALSE],
          lines |-> <<Line("CMD_FAIL", pend.msg_type, pend.seq, 0)>>, tx |-> "NONE"]
    ELSE LET res == sendRawFrameEx(pend.len, r)
         IN  IF RetryTxBusy(res)
             THEN serviceBusy(pend, now_ms)
             ELSE [pending |-> [pend EXCEPT !.retry = (@ + 1) % U8,
                                            !.last_send_ms = now_ms,
                                            !.busy_since_ms = u32(0)],
                   lines |-> <<Line("CMD_RETRY", pend.msg_type, pend.seq, (pend.retry + 1) % U8)>>,
                   tx |-> res]

\* serviceReliableSend without the ACK wait
serviceReliableSend_noWait(pend, now_ms, r) ==
    IF ~pend.active
    THEN [pending |-> pend, lines |-> <<>>, tx |-> "NONE"]
    ELSE IF ~pend.sent_once
    THEN LET res == sendRawFrameEx(pend.len, r)
         IN  IF res \in {"OK", "FAIL"}
             THEN [pending |-> [pend EXCEPT !.sent_once = TRUE, !.last_send_ms = now_ms],
                   lines |-> <<>>, tx |-> res]
             ELSE serviceBusy(pend, now_ms)
    ELSE IF RetryBudgetSpent(pend)
    THEN [pending |-> [pend EXCEPT !.active = FALSE],
          lines |-> <<Line("CMD_FAIL", pend.msg_type, pend.seq, 0)>>, tx |-> "NONE"]
    ELSE LET res == sendRawFrameEx(pend.len, r)
         IN  IF RetryTxBusy(res)
             THEN serviceBusy(pend, now_ms)
             ELSE [pending |-> [pend EXCEPT !.retry = (@ + 1) % U8,
                                            !.last_send_ms = now_ms,
                                            !.busy_since_ms = u32(0)],
                   lines |-> <<Line("CMD_RETRY", pend.msg_type, pend.seq, (pend.retry + 1) % U8)>>,
                   tx |-> res]

\* serviceReliableSend: the PendingCmd, the lines printed and the TX result
serviceReliableSend(pend, now_ms, r) ==
    IF ~pend.active
    THEN [pending |-> pend, lines |-> <<>>, tx |-> "NONE"]
    ELSE IF ~pend.sent_once
    THEN LET res == sendRawFrameEx(pend.len, r)
         IN  IF res \in {"OK", "FAIL"}
             THEN [pending |-> [pend EXCEPT !.sent_once = TRUE, !.last_send_ms = now_ms],
                   lines |-> <<>>, tx |-> res]
             ELSE serviceBusy(pend, now_ms)
    ELSE IF Lt32(Sub32(now_ms, pend.last_send_ms), u32(CMD_ACK_TIMEOUT_MS))
    THEN [pending |-> pend, lines |-> <<>>, tx |-> "NONE"]
    ELSE IF RetryBudgetSpent(pend)
    THEN [pending |-> [pend EXCEPT !.active = FALSE],
          lines |-> <<Line("CMD_FAIL", pend.msg_type, pend.seq, 0)>>, tx |-> "NONE"]
    ELSE LET res == sendRawFrameEx(pend.len, r)
         IN  IF RetryTxBusy(res)
             THEN serviceBusy(pend, now_ms)
             ELSE [pending |-> [pend EXCEPT !.retry = (@ + 1) % U8,
                                            !.last_send_ms = now_ms,
                                            !.busy_since_ms = u32(0)],
                   lines |-> <<Line("CMD_RETRY", pend.msg_type, pend.seq, (pend.retry + 1) % U8)>>,
                   tx |-> res]

(***************************************************************************)
(* Ground relay: radio RX                                                  *)
(***************************************************************************)
\* handleLoRaRx: the Ack answers the pending command
AckMatches_seqOnly(pend, f) == pend.active /\ f.seq = pend.seq

AckMatches_typeOnly(pend, f) == pend.active /\ f.p.acked_msg_type = pend.msg_type

AckMatches(pend, f) ==
    pend.active /\ f.seq = pend.seq /\ f.p.acked_msg_type = pend.msg_type

\* handleLoRaRx: one decoded frame
handleRxFrame(pend, f) ==
    IF f.msg_type = MSG_ACK /\ f.payload_len = SIZEOF_Ack
    THEN IF AckMatches(pend, f)
         THEN [pending |-> [pend EXCEPT !.active = FALSE],
               lines |-> <<Line("ACK", f.p.acked_msg_type, 0, f.p.status),
                           Line("CMD_ACK_RECEIVED", pend.msg_type, pend.seq, f.p.status)>>]
         ELSE [pending |-> pend,
               lines |-> <<Line("ACK", f.p.acked_msg_type, 0, f.p.status)>>]
    ELSE IF f.msg_type = MSG_TELEM_V1 /\ f.payload_len = SIZEOF_TelemetryV1
    THEN [pending |-> pend, lines |-> <<Line("TELEM", 0, 0, 0)>>]
    ELSE [pending |-> pend, lines |-> <<Line("RX", f.msg_type, 0, f.payload_len)>>]

\* handleLoRaRx: the frames of one packet, in order
RECURSIVE handleRxFrames(_, _)
handleRxFrames(pend, fs) ==
    IF fs = <<>>
    THEN [pending |-> pend, lines |-> <<>>]
    ELSE LET one == handleRxFrame(pend, Head(fs))
             rest == handleRxFrames(one.pending, Tail(fs))
         IN  [pending |-> rest.pending, lines |-> one.lines \o rest.lines]

\* one of the frames is an Ack that answers the pending command
CarriesAckOf(pend, fs) ==
    \E i \in 1..Len(fs) :
        fs[i].msg_type = MSG_ACK /\ fs[i].payload_len = SIZEOF_Ack /\ AckMatches(pend, fs[i])

\* handleLoRaRx without the test of g_lora_raw
handleLoRaRx_rawDecodes(pend, raw, fs) ==
    LET r == handleRxFrames(pend, fs)
    IN  [pending |-> r.pending,
         lines |-> <<Line("LORA_RX", 0, 0, 0)>> \o r.lines
                   \o (IF fs = <<>> THEN <<Line("LORA_NO_FRAME", 0, 0, 0)>> ELSE <<>>)]

\* handleLoRaRx for a packet that pollReceive returned
handleLoRaRx(pend, raw, fs) ==
    IF raw
    THEN [pending |-> pend,
          lines |-> <<Line("LORA_RX", 0, 0, 0), Line("LORA_PAYLOAD", 0, 0, 0)>>]
    ELSE LET r == handleRxFrames(pend, fs)
         IN  [pending |-> r.pending,
              lines |-> <<Line("LORA_RX", 0, 0, 0)>> \o r.lines
                        \o (IF fs = <<>> THEN <<Line("LORA_NO_FRAME", 0, 0, 0)>> ELSE <<>>)]

(***************************************************************************)
(* Ground relay: radio watchdog                                            *)
(***************************************************************************)
\* serviceLoRaWatchdog: the radio is re-initialised in this call
WatchdogFires(pkt_ms, reinit_ms, now_ms) ==
    /\ pkt_ms # u32(0)
    /\ ~Lt32(Sub32(now_ms, pkt_ms), u32(5000))
    /\ ~Lt32(Sub32(now_ms, reinit_ms), u32(3000))

(***************************************************************************)
(* Ground relay: shell                                                     *)
(***************************************************************************)
\* handleLine: st holds g_pending, g_tx_seq, g_man, g_sp and g_lora_raw
handleLineSend(st, msg_type, p, payload_len, now, r, okLine) ==
    LET s == startReliableSend(st.pending, st.tx_seq, msg_type, p, payload_len, now, r)
    IN  [st EXCEPT !.pending = s.pending,
                   !.tx_seq = (st.tx_seq + 1) % U8,
                   !.tx = s.tx,
                   !.lines = IF s.ret THEN <<Line(okLine, 0, 0, 0)>>
                             ELSE <<Line("ERR_SEND_FAILED", 0, 0, 0)>>]

\* variant: 'set valve' sends a ManualCmd that holds the valve alone
handleLine_freshManual(st, line, now, r) ==
    IF line.cmd = "lora"
    THEN [st EXCEPT !.raw = (line.arg = "raw on"), !.lines = <<Line("OK_LORA_RAW", 0, 0, 0)>>]
    ELSE IF line.cmd = "mode"
    THEN IF line.arg = "manual"
         THEN handleLineSend(st, MSG_MODE_SWITCH, [mode |-> MODE_MANUAL],
                             SIZEOF_ModeSwitch, now, r, "OK_MODE_SENT")
         ELSE [st EXCEPT !.lines = <<Line("ERR_UNKNOWN_MODE", 0, 0, 0)>>]
    ELSE IF line.arg = "heater"
    THEN LET man == [st.man EXCEPT !.flags = OrFlag(@, MAN_FLAG_HEATER),
                                   !.heater_power_pct = line.val]
         IN  handleLineSend([st EXCEPT !.man = man], MSG_MANUAL_CMD_V1, man,
                            SIZEOF_ManualCmdV1, now, r, "OK_HEATER_SENT")
    ELSE IF line.arg = "valve"
    THEN LET man == [PayloadManualCmdInit EXCEPT !.flags = MAN_FLAG_VALVE,
                                                 !.valve_opening_pct = line.val]
         IN  handleLineSend([st EXCEPT !.man = man], MSG_MANUAL_CMD_V1, man,
                            SIZEOF_ManualCmdV1, now, r, "OK_VALVE_SENT")
    ELSE IF line.arg = "T"
    THEN LET sp == [st.sp EXCEPT !.enable_mask = OrFlag(@, SP_ENABLE_TEMP),
                                 !.target_temp_c = line.val]
         IN  handleLineSend([st EXCEPT !.sp = sp], MSG_SETPOINTS_V1, sp,
                            SIZEOF_SetpointsV1, now, r, "OK_SETPOINT_T_SENT")
    ELSE [st EXCEPT !.lines = <<Line("ERR_UNKNOWN_SET_ITEM", 0, 0, 0)>>]

\* handleLine: one line of the shell, r is what the radio answers to a TX
handleLine(st, line, now, r) ==
    IF line.cmd = "lora"
    THEN [st EXCEPT !.raw = (line.arg = "raw on"), !.lines = <<Line("OK_LORA_RAW", 0, 0, 0)>>]
    ELSE IF line.cmd = "mode"
    THEN IF line.arg = "manual"
         THEN handleLineSend(st, MSG_MODE_SWITCH, [mode |-> MODE_MANUAL],
                             SIZEOF_ModeSwitch, now, r, "OK_MODE_SENT")
         ELSE [st EXCEPT !.lines = <<Line("ERR_UNKNOWN_MODE", 0, 0, 0)>>]
    ELSE IF line.arg = "heater"
    THEN LET man == [st.man EXCEPT !.flags = OrFlag(@, MAN_FLAG_HEATER),
                                   !.heater_power_pct = line.val]
         IN  handleLineSend([st EXCEPT !.man = man], MSG_MANUAL_CMD_V1, man,
                            SIZEOF_ManualCmdV1, now, r, "OK_HEATER_SENT")
    ELSE IF line.arg = "valve"
    THEN LET man == [st.man EXCEPT !.flags = OrFlag(@, MAN_FLAG_VALVE),
                                   !.valve_opening_pct = line.val]
         IN  handleLineSend([st EXCEPT !.man = man], MSG_MANUAL_CMD_V1, man,
                            SIZEOF_ManualCmdV1, now, r, "OK_VALVE_SENT")
    ELSE IF line.arg = "T"
    THEN LET sp == [st.sp EXCEPT !.enable_mask = OrFlag(@, SP_ENABLE_TEMP),
                                 !.target_temp_c = line.val]
         IN  handleLineSend([st EXCEPT !.sp = sp], MSG_SETPOINTS_V1, sp,
                            SIZEOF_SetpointsV1, now, r, "OK_SETPOINT_T_SENT")
    ELSE [st EXCEPT !.lines = <<Line("ERR_UNKNOWN_SET_ITEM", 0, 0, 0)>>]

\* the line submits a command over the reliable downlink
LineSubmits(line) ==
    \/ line.cmd = "mode" /\ line.arg = "manual"
    \/ line.cmd = "set" /\ line.arg \in {"heater", "valve", "T"}

(***************************************************************************)
(* Ground relay: loop()                                                    *)
(***************************************************************************)
\* no 'set heater' or 'set valve' line has been typed
NoValue == 0 - 1

\* no active command has been replaced by a submission
NoReplaced == [seq |-> 0 - 1, msg_type |-> 0, retry |-> 0]

GndHistInit ==
    [ticks |-> 0,          \* loop iterations started
     events |-> 0,         \* lines typed plus packets received
     busy |-> 0,           \* TX attempts that returned BUSY
     cmd |-> 0,            \* commands submitted so far (saturates at 1)
     n_sent |-> 0,         \* TX attempts of the current command that returned OK or FAIL
     n_retry_lines |-> 0,  \* RETRY lines printed for the current command
     n_fail_lines |-> 0,   \* FAIL lines printed for the current command
     acked |-> FALSE,      \* the current command was deactivated by an Ack
     rx |-> <<>>,          \* frames the last step decoded from a packet
     pkt |-> FALSE,        \* the last step read a packet from the radio
     ever_pkt |-> FALSE,   \* a packet has been read from the radio since boot
     last_pkt_ms |-> u32(0), \* millis() when the latest packet was read
     replaced |-> NoReplaced, \* the active command that the latest submission replaced
     missed |-> FALSE,     \* a packet read in raw sniff mode carried the Ack of the current command
     set_heater |-> NoValue, \* the value of the latest 'set heater' line
     set_valve |-> NoValue,  \* the value of the latest 'set valve' line
     tx |-> "NONE"]        \* result of the TX attempt the last step made, if any

GndInit ==
    /\ gnd_pc = "idle"
    /\ gnd_clock \in GndClockStarts
    /\ gnd_now_ms = gnd_clock
    /\ g_pending = PendingCmdInit
    /\ g_tx_seq = 0
    /\ g_man = PayloadManualCmdInit
    /\ g_sp = PayloadSetpointsInit
    /\ g_lora_raw = FALSE
    /\ g_last_lora_pkt_ms = u32(0)
    /\ g_last_lora_reinit_ms = u32(0)
    /\ gnd_lines = <<>>
    /\ gnd_hist = GndHistInit

\* "mode manual" typed 400 ms before the clock start, as startReliableSend
\* leaves it when the radio answers r
GndSwapSubmitted(start, r) ==
    startReliableSend(PendingCmdInit, 0, MSG_MODE_SWITCH, [mode |-> MODE_MANUAL],
                      SIZEOF_ModeSwitch, Sub32(start, u32(CMD_ACK_TIMEOUT_MS)), r).pending

\* the same command as the retry service leaves it at the clock start
GndSwapServiced(start, r, r2) ==
    serviceReliableSend(GndSwapSubmitted(start, r), start, r2).pending

\* the ground relay while its first command is still waiting for its Ack:
\* never sent (BUSY twice), sent once, or sent and retried once
GndSwapInit ==
    /\ gnd_pc = "idle"
    /\ gnd_clock \in GndClockStarts
    /\ gnd_now_ms = gnd_clock
    /\ \E rr \in {<<"BUSY", "BUSY">>, <<"BUSY", "OK">>, <<"OK", "OK">>} :
          /\ g_pending = GndSwapServiced(gnd_clock, rr[1], rr[2])
          /\ gnd_hist = [GndHistInit EXCEPT
                           !.cmd = 1,
                           !.n_sent = IF rr[1] = "BUSY" /\ rr[2] = "BUSY" THEN 0
                                      ELSE IF rr[1] = "BUSY" THEN 1 ELSE 2,
                           !.n_retry_lines = IF rr[1] = "OK" THEN 1 ELSE 0]
    /\ g_tx_seq = 1
    /\ g_man = PayloadManualCmdInit
    /\ g_sp = PayloadSetpointsInit
    /\ g_lora_raw = FALSE
    /\ g_last_lora_pkt_ms = u32(0)
    /\ g_last_lora_reinit_ms = u32(0)
    /\ gnd_lines = <<>>

\* the lines of kind k among ls
LinesOfKind(ls, k) == { i \in 1..Len(ls) : ls[i].k = k }

\* loop() up to handleLoRaRx, when pollReceive has no packet
GndLoopRxNone(dt) ==
    /\ gnd_pc = "idle"
    /\ gnd_hist.ticks < MaxGndTyping + MaxGndDrain
    /\ gnd_pc' = "svc"
    /\ gnd_clock' = Add32(gnd_clock, u32(dt))
    /\ gnd_now_ms' = gnd_clock'
    /\ gnd_lines' = <<>>
    /\ gnd_hist' = [gnd_hist EXCEPT !.ticks = @ + 1, !.tx = "NONE", !.rx = <<>>,
                                    !.pkt = FALSE]
    /\ UNCHANGED <<g_pending, g_tx_seq, g_man, g_sp, g_lora_raw,
                   g_last_lora_pkt_ms, g_last_lora_reinit_ms>>

\* loop() up to handleLoRaRx, when pollReceive returns a packet whose frames
\* are rx.fs and millis() has moved on by rx.slip since now_ms was taken
GndLoopRxPacket(dt, rx) ==
    /\ gnd_pc = "idle"
    /\ gnd_hist.ticks < MaxGndTyping + MaxGndDrain
    /\ gnd_hist.events < MaxGndEvents
    /\ gnd_pc' = "svc"
    /\ gnd_now_ms' = Add32(gnd_clock, u32(dt))
    /\ gnd_clock' = Add32(gnd_now_ms', u32(rx.slip))
    /\ g_last_lora_pkt_ms' = gnd_clock'
    /\ LET r == handleLoRaRx(g_pending, g_lora_raw, rx.fs)
       IN  /\ g_pending' = r.pending
           /\ gnd_lines' = r.lines
           /\ gnd_hist' = [gnd_hist EXCEPT
                             !.ticks = @ + 1,
                             !.events = @ + 1,
                             !.tx = "NONE",
                             !.rx = IF g_lora_raw THEN <<>> ELSE rx.fs,
                             !.pkt = TRUE,
                             !.ever_pkt = TRUE,
                             !.last_pkt_ms = gnd_clock',
                             !.missed = @ \/ (g_lora_raw /\ CarriesAckOf(g_pending, rx.fs)),
                             !.acked = @ \/ (g_pending.active /\ ~r.pending.active)]
    /\ UNCHANGED <<g_tx_seq, g_man, g_sp, g_lora_raw, g_last_lora_reinit_ms>>

\* loop(): serviceReliableSend(now_ms), then serviceLoRaWatchdog(now_ms);
\* r is what the radio answers if it is asked to transmit
GndService(r) ==
    /\ gnd_pc = "svc"
    /\ r = "BUSY" => gnd_hist.busy < MaxGndBusy
    /\ gnd_pc' = "shell"
    /\ LET s == serviceReliableSend(g_pending, gnd_now_ms, r)
           fires == WatchdogFires(g_last_lora_pkt_ms, g_last_lora_reinit_ms, gnd_now_ms)
       IN  /\ g_pending' = s.pending
           /\ g_last_lora_reinit_ms' = IF fires THEN gnd_now_ms ELSE g_last_lora_reinit_ms
           /\ g_last_lora_pkt_ms' = IF fires THEN gnd_now_ms ELSE g_last_lora_pkt_ms
           /\ gnd_lines' = s.lines \o
                           (IF fires
                            THEN <<Line("LORA_WATCHDOG", 0, 0, 0), Line("LORA_REINIT", 0, 0, 0)>>
                            ELSE <<>>)
           /\ gnd_hist' = [gnd_hist EXCEPT
                             !.rx = <<>>,
                             !.pkt = FALSE,
                             !.tx = s.tx,
                             !.busy = IF s.tx = "BUSY" THEN @ + 1 ELSE @,
                             !.n_sent = IF s.tx \in {"OK", "FAIL"} THEN @ + 1 ELSE @,
                             !.n_retry_lines = @ + Cardinality(LinesOfKind(s.lines, "CMD_RETRY")),
                             !.n_fail_lines = @ + Cardinality(LinesOfKind(s.lines, "CMD_FAIL"))]
    /\ UNCHANGED <<gnd_clock, gnd_now_ms, g_tx_seq, g_man, g_sp, g_lora_raw>>

\* loop(): one line read from the USB serial port and handled
GndShellLine(line, r) ==
    /\ gnd_pc = "shell"
    /\ gnd_hist.ticks <= MaxGndTyping
    /\ gnd_hist.events < MaxGndEvents
    /\ r = "BUSY" => gnd_hist.busy < MaxGndBusy
    /\ gnd_pc' = "idle"
    /\ LET st == handleLine([pending |-> g_pending, tx_seq |-> g_tx_seq, man |-> g_man,
                             sp |-> g_sp, raw |-> g_lora_raw, tx |-> "NONE", lines |-> <<>>],
                            line, gnd_clock, r)
       IN  /\ g_pending' = st.pending
           /\ g_tx_seq' = st.tx_seq
           /\ g_man' = st.man
           /\ g_sp' = st.sp
           /\ g_lora_raw' = st.raw
           /\ gnd_lines' = st.lines
           /\ gnd_hist' = IF LineSubmits(line)
                          THEN [gnd_hist EXCEPT
                                  !.events = @ + 1,
                                  !.cmd = 1,
                                  !.tx = st.tx,
                                  !.busy = IF st.tx = "BUSY" THEN @ + 1 ELSE @,
                                  !.n_sent = IF st.tx \in {"OK", "FAIL"} THEN 1 ELSE 0,
                                  !.n_retry_lines = 0,
                                  !.n_fail_lines = 0,
                                  !.acked = FALSE,
                                  !.missed = FALSE,
                                  !.set_heater = IF line.cmd = "set" /\ line.arg = "heater"
                                                 THEN line.val ELSE @,
                                  !.set_valve = IF line.cmd = "set" /\ line.arg = "valve"
                                                THEN line.val ELSE @,
                                  !.replaced =
                                      IF g_pending.active
                                      THEN [seq |-> g_pending.seq,
                                            msg_type |-> g_pending.msg_type,
                                            retry |-> g_pending.retry]
                                      ELSE @]
                          ELSE [gnd_hist EXCEPT !.events = @ + 1, !.tx = "NONE"]
    /\ UNCHANGED <<gnd_clock, gnd_now_ms, g_last_lora_pkt_ms, g_last_lora_reinit_ms>>

\* loop(): nothing to read on the USB serial port
GndShellNone ==
    /\ gnd_pc = "shell"
    /\ gnd_pc' = "idle"
    /\ gnd_lines' = <<>>
    /\ gnd_hist' = [gnd_hist EXCEPT !.tx = "NONE"]
    /\ UNCHANGED <<gnd_clock, gnd_now_ms, g_pending, g_tx_seq, g_man, g_sp, g_lora_raw,
                   g_last_lora_pkt_ms, g_last_lora_reinit_ms>>

GndNext ==
    /\ \/ \E dt \in GndDeltas : GndLoopRxNone(dt)
       \/ \E dt \in GndDeltas, rx \in GndRxPackets : GndLoopRxPacket(dt, rx)
       \/ \E r \in TxResults : GndService(r)
       \/ \E line \in GndShellLines, r \in TxResults : GndShellLine(line, r)
       \/ GndShellNone
    /\ UNCHANGED <<ctrlVars, codecVars, valveVars, radioVars, airVars, gndRxVars, linkVars>>

(***************************************************************************)
(* Frame codec (FrameCodec.cpp): crc16_modbus, encode, Parser::feed        *)
(***************************************************************************)
SYNC1 == 85
SYNC2 == 170
MAX_PAYLOAD == 220

RECURSIVE Xor(_, _, _)
\* a ^ b on the low n bits
Xor(a, b, n) ==
    IF n = 0 THEN 0 ELSE ((a + b) % 2) + 2 * Xor(a \div 2, b \div 2, n - 1)

RECURSIVE crcShift(_, _)
\* crc16_modbus, inner loop: n rounds of shift and conditional xor with 0xA001
crcShift(crc, n) ==
    IF n = 0 THEN crc
    ELSE crcShift(IF crc % 2 = 1 THEN Xor(crc \div 2, 40961, 16) ELSE crc \div 2, n - 1)

RECURSIVE crcRange(_, _, _, _)
\* crc16_modbus, outer loop over the octets data[lo..hi]; the range is
\* folded in halves, which is the same left-to-right fold: the CRC after the
\* first half (left) is the starting value of the second half
crcRange(crc, data, lo, hi) ==
    IF lo > hi THEN crc
    ELSE IF lo = hi THEN crcShift(Xor(crc, data[lo], 16), 8)
    ELSE CHOOSE r \in { crcRange(left, data, (lo + hi) \div 2 + 1, hi)
                          : left \in {crcRange(crc, data, lo, (lo + hi) \div 2)} } : TRUE

crc16_modbus(data) == crcRange(65535, data, 1, Len(data))

\* variant: the CRC is written high octet first
encodeBytes_crcBE(msg_type, seq, payload, out_cap) ==
    LET len == (Len(payload) + 4) % U8
        crc == crc16_modbus(<<len, msg_type, seq>> \o payload)
    IN  IF out_cap < 3 + len THEN <<>>
        ELSE <<SYNC1, SYNC2, len, msg_type, seq>> \o payload
             \o <<(crc \div 256) % 256, crc % 256>>

\* encode: the octets written to out_buf (none when they do not fit)
encodeBytes(msg_type, seq, payload, out_cap) ==
    LET len == (Len(payload) + 4) % U8
        crc == crc16_modbus(<<len, msg_type, seq>> \o payload)
    IN  IF out_cap < 3 + len THEN <<>>
        ELSE <<SYNC1, SYNC2, len, msg_type, seq>> \o payload
             \o <<crc % 256, (crc \div 256) % 256>>

\* Parser::reset
ParserReset == [state_ |-> "WAIT_SYNC1", len_ |-> 0, body_ |-> <<>>]

\* the FrameView of a call that emits nothing
NoView == [msg_type |-> 0, seq |-> 0, payload |-> <<>>, payload_len |-> 0]

\* variant: only the low octet of the CRC is compared
CrcMatches_lowOnly(crc_calc, crc_rx) == crc_calc % 256 = crc_rx % 256

\* Parser::feed: the received CRC equals the computed one
CrcMatches(crc_calc, crc_rx) == crc_calc = crc_rx

\* Parser::feed in WAIT_BODY; body_ holds the octets body_[0..body_pos_-1]
feedBody(p, b) ==
    LET body == Append(p.body_, b) IN
    IF Len(body) < p.len_
    THEN [parser |-> [p EXCEPT !.body_ = body], emit |-> FALSE, frame |-> NoView]
    ELSE LET msg_type == body[1]
             seq == body[2]
             payload_len == (p.len_ - 4) % U8
             crc_rx == body[p.len_ - 1] + 256 * body[p.len_]
             payload == SubSeq(body, 3, 2 + payload_len)
             crc_calc == crc16_modbus(<<p.len_, msg_type, seq>> \o payload)
         IN  IF ~CrcMatches(crc_calc, crc_rx)
             THEN [parser |-> ParserReset, emit |-> FALSE, frame |-> NoView]
             ELSE [parser |-> ParserReset, emit |-> TRUE,
                   frame |-> [msg_type |-> msg_type, seq |-> seq,
                              payload |-> payload, payload_len |-> payload_len]]

\* variant: the length octet is only checked against its lower limit
feed_lenUnchecked(p, b) ==
    IF p.state_ = "WAIT_SYNC1"
    THEN [parser |-> IF b = SYNC1 THEN [p EXCEPT !.state_ = "WAIT_SYNC2"] ELSE p,
          emit |-> FALSE, frame |-> NoView]
    ELSE IF p.state_ = "WAIT_SYNC2"
    THEN [parser |-> IF b = SYNC2 THEN [p EXCEPT !.state_ = "WAIT_LEN"] ELSE ParserReset,
          emit |-> FALSE, frame |-> NoView]
    ELSE IF p.state_ = "WAIT_LEN"
    THEN [parser |-> IF b < 4
                     THEN ParserReset
                     ELSE [state_ |-> "WAIT_BODY", len_ |-> b, body_ |-> <<>>],
          emit |-> FALSE, frame |-> NoView]
    ELSE feedBody(p, b)

\* Parser::feed: the parser after octet b, whether a frame is emitted, the frame
feed(p, b) ==
    IF p.state_ = "WAIT_SYNC1"
    THEN [parser |-> IF b = SYNC1 THEN [p EXCEPT !.state_ = "WAIT_SYNC2"] ELSE p,
          emit |-> FALSE, frame |-> NoView]
    ELSE IF p.state_ = "WAIT_SYNC2"
    THEN [parser |-> IF b = SYNC2 THEN [p EXCEPT !.state_ = "WAIT_LEN"] ELSE ParserReset,
          emit |-> FALSE, frame |-> NoView]
    ELSE IF p.state_ = "WAIT_LEN"
    THEN [parser |-> IF b < 4 \/ b > MAX_PAYLOAD + 4
                     THEN ParserReset
                     ELSE [state_ |-> "WAIT_BODY", len_ |-> b, body_ |-> <<>>],
          emit |-> FALSE, frame |-> NoView]
    ELSE feedBody(p, b)

(***************************************************************************)
(* Frame codec: inputs                                                     *)
(***************************************************************************)
\* the sequences over S of length at most n
SeqsUpTo(S, n) == UNION { [1..k -> S] : k \in 0..n }

\* octets the enumerated payloads are made of (the sync octets among them)
CodecOctets == {0, 1, SYNC1, SYNC2}

\* octets garbage is made of: the sync octets and a plausible length octet
GarbageOctets == {0, SYNC1, SYNC2, 4}

\* a payload of n octets, all equal to b
Filled(n, b) == [i \in 1..n |-> b]

\* the two CRC octets of the frame (msg_type, seq) with an empty payload
CrcOfEmpty(msg_type, seq) ==
    LET crc == crc16_modbus(<<4, msg_type, seq>>) IN <<crc % 256, crc \div 256>>

\* (msg_type, seq, payload) triples to encode: every short payload, the
\* longest payload, and a payload that is itself the CRC of a shorter frame
CodecFrames ==
    { [msg_type |-> t, seq |-> q, payload |-> pl]
        : t \in {0, MSG_MODE_SWITCH, SYNC1, 255}, q \in {0, 7, SYNC2},
          pl \in SeqsUpTo(CodecOctets, MaxPayloadLen) }
    \cup { [msg_type |-> MSG_TELEM_V1, seq |-> SYNC1, payload |-> Filled(MAX_PAYLOAD, SYNC1)],
           [msg_type |-> SYNC2, seq |-> 255, payload |-> Filled(MAX_PAYLOAD - 1, 255)],
           [msg_type |-> MSG_ACK, seq |-> 7, payload |-> CrcOfEmpty(MSG_ACK, 7)] }

\* the frames used behind garbage and for bit flips
CodecShortFrames ==
    { [msg_type |-> MSG_MODE_SWITCH, seq |-> 7, payload |-> <<1>>],
      [msg_type |-> MSG_ACK, seq |-> 7, payload |-> CrcOfEmpty(MSG_ACK, 7)] }

\* octet b with bit k flipped
FlipBit(b, k) == IF (b \div (2 ^ k)) % 2 = 1 THEN b - 2 ^ k ELSE b + 2 ^ k

\* the input cases: an encoded frame alone; garbage, then an encoded frame;
\* an encoded frame with bit flip[2] of octet flip[1] flipped (octets are
\* counted from 1, so the length octet is octet 3)
CodecCases ==
    { [kind |-> "clean", f |-> f, garbage |-> <<>>, flip |-> <<0, 0>>] : f \in CodecFrames }
    \cup { [kind |-> "garbage", f |-> f, garbage |-> g, flip |-> <<0, 0>>]
             : f \in CodecShortFrames, g \in SeqsUpTo(GarbageOctets, MaxGarbageLen) \ {<<>>} }
    \cup { [kind |-> "flip", f |-> c[1], garbage |-> <<>>, flip |-> <<c[2], c[3]>>]
             : c \in { d \in CodecShortFrames \X (3..9) \X (0..7) : d[2] <= Len(d[1].payload) + 7 } }

\* length octets at and beyond the limits, each behind the two sync octets
\* and followed by an encoded frame
ParserLengthCases ==
    { [kind |-> "length", f |-> f, garbage |-> <<SYNC1, SYNC2, n>>, flip |-> <<0, 0>>]
        : f \in CodecShortFrames, n \in {0, 3, MAX_PAYLOAD + 5, 255} }

\* every input case of the parser
ParserCases == CodecCases \cup ParserLengthCases

\* the octets fed in a case
CodecInput(c) ==
    LET bytes == encodeBytes(c.f.msg_type, c.f.seq, c.f.payload, 256)
    IN  c.garbage \o [i \in 1..Len(bytes) |->
                         IF c.kind = "flip" /\ i = c.flip[1]
                         THEN FlipBit(bytes[i], c.flip[2]) ELSE bytes[i]]

(***************************************************************************)
(* Frame codec: a parser in WAIT_SYNC1 is fed the octets of one case       *)
(***************************************************************************)
\* the codec is not exercised
CodecIdle ==
    /\ cd_parser = ParserReset
    /\ cd_in = <<>>
    /\ cd_fed = 0
    /\ cd_out = <<>>
    /\ cd_case = [kind |-> "none", f |-> NoView, garbage |-> <<>>, flip |-> <<0, 0>>]

CodecInit ==
    /\ cd_case \in CodecCases
    /\ cd_in = CodecInput(cd_case)
    /\ cd_parser = ParserReset
    /\ cd_fed = 0
    /\ cd_out = <<>>

ParserInit ==
    /\ cd_case \in ParserCases
    /\ cd_in = CodecInput(cd_case)
    /\ cd_parser = ParserReset
    /\ cd_fed = 0
    /\ cd_out = <<>>

\* the caller's loop: feed the next octet
CodecFeed ==
    /\ cd_in # <<>>
    /\ LET r == feed(cd_parser, Head(cd_in))
       IN  /\ cd_parser' = r.parser
           /\ cd_out' = IF r.emit THEN Append(cd_out, [frame |-> r.frame, at |-> cd_fed + 1])
                                  ELSE cd_out
    /\ cd_in' = Tail(cd_in)
    /\ cd_fed' = cd_fed + 1
    /\ UNCHANGED cd_case

CodecNext == CodecFeed /\ UNCHANGED <<ctrlVars, gndVars, valveVars, radioVars, airVars, gndRxVars, linkVars>>

(***************************************************************************)
(* Frame codec: properties                                                 *)
(***************************************************************************)
\* the frame a case encodes, as the parser reports it
ClaimView(f) ==
    [msg_type |-> f.msg_type, seq |-> f.seq, payload |-> f.payload,
     payload_len |-> Len(f.payload)]

\* the frames emitted so far
ClaimEmitted == { cd_out[i].frame : i \in 1..Len(cd_out) }

\* C14: the octets of an encoded frame are 0x55 0xAA, payload_len + 4,
\* msg_type, seq, the payload, CRC low, CRC high; fed to a parser in
\* WAIT_SYNC1 they emit nothing before the last octet, and on the last octet
\* exactly one frame whose msg_type, seq, payload_len and payload are the
\* inputs, and the parser is back in WAIT_SYNC1
C14_RoundTrip ==
    cd_case.kind = "clean" =>
        LET f == cd_case.f
            n == Len(f.payload)
        IN  /\ cd_fed = 0 =>
                   LET crc == crc16_modbus(<<n + 4, f.msg_type, f.seq>> \o f.payload)
                   IN  cd_in = <<85, 170, n + 4, f.msg_type, f.seq>> \o f.payload
                                \o <<crc % 256, crc \div 256>>
            /\ cd_in # <<>> => cd_out = <<>>
            /\ cd_in = <<>> =>
                   /\ cd_out = <<[frame |-> ClaimView(f), at |-> n + 7]>>
                   /\ cd_fed = n + 7
                   /\ cd_parser.state_ = "WAIT_SYNC1"

\* C14 witness: a frame with the longest payload went through the parser
C14_Witness ==
    /\ cd_case.kind = "clean"
    /\ Len(cd_case.f.payload) = MAX_PAYLOAD
    /\ cd_in = <<>>
    /\ Len(cd_out) = 1

\* C14 witness: the frame encode(0x10, seq 7, payload 01) went through
C14_WitnessModeSwitch ==
    /\ cd_case.kind = "clean"
    /\ cd_case.f = [msg_type |-> MSG_MODE_SWITCH, seq |-> 7, payload |-> <<1>>]
    /\ cd_in = <<>>
    /\ Len(cd_out) = 1

\* C15, as claimed: garbage followed by the octets of a valid frame F makes
\* the parser emit F
C15_FrameAfterGarbageEmitted ==
    (cd_case.kind = "garbage" /\ cd_in = <<>>) => ClaimView(cd_case.f) \in ClaimEmitted

\* C15, as coded: the frame is emitted when the garbage leaves the parser in
\* WAIT_SYNC1, which garbage without the octet 0x55 does
C15_FrameAfterGarbageAsCoded ==
    (/\ cd_case.kind = "garbage"
     /\ cd_in = <<>>
     /\ \A i \in 1..Len(cd_case.garbage) : cd_case.garbage[i] # SYNC1)
        => cd_out = <<[frame |-> ClaimView(cd_case.f), at |-> cd_fed]>>

\* C15 witness: garbage ending in 0x55 and a whole frame were fed
C15_Witness ==
    /\ cd_case.kind = "garbage"
    /\ cd_case.garbage[Len(cd_case.garbage)] = SYNC1
    /\ cd_in = <<>>

\* C16, as claimed: an encoded frame with one bit of its length, msg_type,
\* seq, payload or CRC octets flipped makes the parser emit no frame
C16_BitFlipEmitsNothing ==
    cd_case.kind = "flip" => cd_out = <<>>

\* C16: an encoded frame with one bit of its msg_type, seq, payload or CRC
\* octets flipped makes the parser emit no frame; with one bit of its length
\* octet flipped the parser never emits the frame that was encoded, and what
\* it emits has a shorter payload
C16_BitFlipNeverEmitsFrame ==
    cd_case.kind = "flip" =>
        /\ cd_case.flip[1] >= 4 => cd_out = <<>>
        /\ \A v \in ClaimEmitted :
               /\ v # ClaimView(cd_case.f)
               /\ v.payload_len < Len(cd_case.f.payload)

\* C16 witness: a flipped length octet made the parser emit a frame
C16_Witness ==
    /\ cd_case.kind = "flip"
    /\ cd_case.flip[1] = 3
    /\ cd_in = <<>>
    /\ cd_out # <<>>

\* C16 witness: a frame with a flipped CRC octet was fed whole
C16_WitnessCrc ==
    /\ cd_case.kind = "flip"
    /\ cd_case.flip[1] = Len(cd_case.f.payload) + 7
    /\ cd_in = <<>>
    /\ cd_out = <<>>

(***************************************************************************)
(* Valve driver (ValveDriver.cpp). A percent is an integer number of       *)
(* tenths of a percent, NaN or Inf.                                        *)
(***************************************************************************)
VALVE_CYCLE_MS == 500

\* an infinite float
Inf == 1000002

\* isfinite
isfinite(v) == v # NaN /\ v # Inf

\* x / k on uint32 for 0 < k < 2^15, by long division on the two halves
Div32Small(x, k) ==
    LET r1 == x[1] % k
    IN  <<x[1] \div k, (r1 * W16 + x[2]) \div k>>

\* x * k modulo 2^32 for 0 <= k < 2^15
Mul32Small(x, k) ==
    LET l == x[2] * k
        h == x[1] * k + l \div W16
    IN  <<h % W16, l % W16>>

\* clampPct
clampPct(v) ==
    IF ~isfinite(v) THEN 0
    ELSE IF v < 0 THEN 0
    ELSE IF v > 1000 THEN 1000
    ELSE v

\* static_cast<int>(pct + 0.5f) of a percent that is not negative
PctRound(pct) == (pct + 5) \div 10

\* variant: the origin is never advanced
setOpeningPct_noAdvance(pct, now_ms, t0) ==
    LET cl == clampPct(pct)
        ipct == PctRound(cl)
    IN  IF ipct <= 0
        THEN [pin |-> "LOW", cycle_start_ms_ |-> t0, last_pct_ |-> cl]
        ELSE IF ipct >= 100
        THEN [pin |-> "HIGH", cycle_start_ms_ |-> t0, last_pct_ |-> cl]
        ELSE LET phase == Sub32(now_ms, t0)
                 on_ms == (VALVE_CYCLE_MS * ipct) \div 100
             IN  [pin |-> IF Lt32(phase, u32(on_ms)) THEN "HIGH" ELSE "LOW",
                  cycle_start_ms_ |-> t0, last_pct_ |-> cl]

\* variant: a closed valve restarts the cycle
setOpeningPct_restart(pct, now_ms, t0) ==
    LET cl == clampPct(pct)
        ipct == PctRound(cl)
    IN  IF ipct <= 0
        THEN [pin |-> "LOW", cycle_start_ms_ |-> now_ms, last_pct_ |-> cl]
        ELSE IF ipct >= 100
        THEN [pin |-> "HIGH", cycle_start_ms_ |-> t0, last_pct_ |-> cl]
        ELSE LET elapsed == Sub32(now_ms, t0)
                 cycles == Div32Small(elapsed, VALVE_CYCLE_MS)
                 start == IF Ge32(elapsed, u32(VALVE_CYCLE_MS))
                          THEN Add32(t0, Mul32Small(cycles, VALVE_CYCLE_MS))
                          ELSE t0
                 phase == Sub32(now_ms, start)
                 on_ms == (VALVE_CYCLE_MS * ipct) \div 100
             IN  [pin |-> IF Lt32(phase, u32(on_ms)) THEN "HIGH" ELSE "LOW",
                  cycle_start_ms_ |-> start, last_pct_ |-> cl]

\* ValveDriver::setOpeningPct with cycle_start_ms_ = t0: the level written to
\* the pin and the members after the call
setOpeningPct(pct, now_ms, t0) ==
    LET cl == clampPct(pct)
        ipct == PctRound(cl)
    IN  IF ipct <= 0
        THEN [pin |-> "LOW", cycle_start_ms_ |-> t0, last_pct_ |-> cl]
        ELSE IF ipct >= 100
        THEN [pin |-> "HIGH", cycle_start_ms_ |-> t0, last_pct_ |-> cl]
        ELSE LET elapsed == Sub32(now_ms, t0)
                 cycles == Div32Small(elapsed, VALVE_CYCLE_MS)
                 start == IF Ge32(elapsed, u32(VALVE_CYCLE_MS))
                          THEN Add32(t0, Mul32Small(cycles, VALVE_CYCLE_MS))
                          ELSE t0
                 phase == Sub32(now_ms, start)
                 on_ms == (VALVE_CYCLE_MS * ipct) \div 100
             IN  [pin |-> IF Lt32(phase, u32(on_ms)) THEN "HIGH" ELSE "LOW",
                  cycle_start_ms_ |-> start, last_pct_ |-> cl]

\* millis() when ValveDriver::begin runs: shortly before the clock wraps
ValveClockStart == Sub32(u32(0), u32(700))

\* millis() advance between two calls
ValveDeltas == {1, 150, 499, 1250}

\* percents given to setOpeningPct (tenths of a percent)
ValvePcts == {NaN, Inf, -5, 4, 5, 300, 304, 995, 1000, 1500}

\* the length of a period during which every call has percent 0 (24 days)
ValveHoldTimes == {2147483647}

\* a millisecond count that does not wrap: <<multiple of 2^16, rest>>
WideAdd(a, n) ==
    <<a[1] + u32(n)[1] + (a[2] + u32(n)[2]) \div W16, (a[2] + u32(n)[2]) % W16>>

\* a - b on counts that do not wrap, for a >= b
WideSub(a, b) ==
    IF a[2] >= b[2] THEN <<a[1] - b[1], a[2] - b[2]>>
    ELSE <<a[1] - b[1] - 1, a[2] + W16 - b[2]>>

\* the cycle origin of the same driver on a clock that does not wrap, after a
\* call at time now with origin t0
WideOrigin(now, t0) ==
    LET elapsed == WideSub(now, t0)
        cycles == Div32Small(elapsed, VALVE_CYCLE_MS)
    IN  IF Lt32(elapsed, u32(VALVE_CYCLE_MS)) THEN t0
        ELSE <<t0[1] + cycles[1] * VALVE_CYCLE_MS + (t0[2] + cycles[2] * VALVE_CYCLE_MS) \div W16,
               (t0[2] + cycles[2] * VALVE_CYCLE_MS) % W16>>

ValveHistInit ==
    [calls |-> 0,                 \* calls of setOpeningPct made one by one
     pct |-> 0,                   \* percent of the last call
     holds |-> 0,                 \* periods spent closed
     high |-> 0,                  \* calls that drove the pin HIGH (1 ms ticks)
     uclock |-> ValveClockStart,  \* millis() had it not wrapped
     ut0 |-> ValveClockStart,     \* the origin on the clock that does not wrap
     fresh |-> TRUE]              \* every call with 0 < percent < 100 so far came
                                  \* less than 2^32 ms after the origin

\* ValveDriver::begin
ValveInit ==
    /\ v_clock = ValveClockStart
    /\ v_pin = "LOW"
    /\ cycle_start_ms_ = ValveClockStart
    /\ last_pct_ = 0
    /\ v_hist = ValveHistInit

\* the observations after a call setOpeningPct(pct, now) dt ms after the last
ValveHistAfter(h, pct, dt) ==
    LET ip == PctRound(clampPct(pct))
        un == WideAdd(h.uclock, dt)
        mid == 0 < ip /\ ip < 100
    IN  [h EXCEPT !.pct = pct,
                  !.uclock = un,
                  !.ut0 = IF mid THEN WideOrigin(un, h.ut0) ELSE @,
                  !.fresh = @ /\ (mid => WideSub(un, h.ut0)[1] < W16)]

\* one call setOpeningPct(pct, millis()), dt ms after the previous call
ValveSet(pct, dt) ==
    /\ v_hist.calls < MaxValveCalls
    /\ v_clock' = Add32(v_clock, u32(dt))
    /\ LET r == setOpeningPct(pct, v_clock', cycle_start_ms_)
       IN  /\ v_pin' = r.pin
           /\ cycle_start_ms_' = r.cycle_start_ms_
           /\ last_pct_' = r.last_pct_
    /\ v_hist' = [ValveHistAfter(v_hist, pct, dt) EXCEPT !.calls = @ + 1]

\* setOpeningPct(0, millis()) called at every loop iteration for dt ms: each
\* call writes LOW and returns before the origin is looked at
ValveHeldClosed(dt) ==
    /\ v_hist.holds < MaxValveHolds
    /\ v_clock' = Add32(v_clock, u32(dt))
    /\ LET r == setOpeningPct(0, v_clock', cycle_start_ms_)
       IN  /\ v_pin' = r.pin
           /\ cycle_start_ms_' = r.cycle_start_ms_
           /\ last_pct_' = r.last_pct_
    /\ v_hist' = [ValveHistAfter(v_hist, 0, dt) EXCEPT !.holds = @ + 1]

\* the percents of the runs at a constant percent (tenths of a percent)
ValveRunPcts == {0, 10, 300, 990, 1000}

\* ValveDriver::begin, before a run at a constant percent
ValveRunInit ==
    /\ v_clock = ValveClockStart
    /\ v_pin = "LOW"
    /\ cycle_start_ms_ = ValveClockStart
    /\ last_pct_ = 0
    /\ v_hist \in { [ValveHistInit EXCEPT !.pct = p] : p \in ValveRunPcts }

\* a run at a constant percent: the next tick of a 1 ms clock, at which
\* setOpeningPct is called with the percent of the run
ValveTick ==
    /\ v_hist.calls < MaxValveCycles * VALVE_CYCLE_MS
    /\ v_clock' = Add32(v_clock, u32(1))
    /\ LET r == setOpeningPct(v_hist.pct, v_clock', cycle_start_ms_)
       IN  /\ v_pin' = r.pin
           /\ cycle_start_ms_' = r.cycle_start_ms_
           /\ last_pct_' = r.last_pct_
           /\ v_hist' = [ValveHistAfter(v_hist, v_hist.pct, 1) EXCEPT
                            !.calls = @ + 1,
                            !.high = IF r.pin = "HIGH" THEN @ + 1 ELSE @]

ValveRunNext == ValveTick /\ UNCHANGED <<ctrlVars, gndVars, codecVars, radioVars, airVars, gndRxVars, linkVars>>

ValveNext ==
    /\ \/ \E pct \in ValvePcts, dt \in ValveDeltas : ValveSet(pct, dt)
       \/ \E dt \in ValveHoldTimes : ValveHeldClosed(dt)
    /\ UNCHANGED <<ctrlVars, gndVars, codecVars, radioVars, airVars, gndRxVars, linkVars>>

(***************************************************************************)
(* Valve driver: properties                                                *)
(***************************************************************************)
\* a step that is one call of setOpeningPct
ValveStep == v_hist'.calls = v_hist.calls + 1

\* the rounded, clamped percent of a call with percent p (tenths)
ClaimPercent(p) ==
    IF p = NaN \/ p = Inf \/ p < 0 THEN 0
    ELSE IF p > 1000 THEN 100
    ELSE (p + 5) \div 10

\* C20: setOpeningPct(p, now) drives the pin LOW when the rounded, clamped
\* percent is <= 0 and HIGH when it is >= 100, both without changing the
\* cycle origin; otherwise the pin is HIGH exactly when (now - t0) mod 2^32,
\* with t0 the origin after the call, is below floor(cycle * percent / 100)
C20_ValveDuty ==
    [][ValveStep =>
        LET ip == ClaimPercent(v_hist'.pct)
        IN  /\ ip <= 0 => (v_pin' = "LOW" /\ cycle_start_ms_' = cycle_start_ms_)
            /\ ip >= 100 => (v_pin' = "HIGH" /\ cycle_start_ms_' = cycle_start_ms_)
            /\ (0 < ip /\ ip < 100) =>
                   (v_pin' = "HIGH" <=>
                        Lt32(Sub32(v_clock', cycle_start_ms_'), u32((VALVE_CYCLE_MS * ip) \div 100)))
    ]_vars

\* a call of setOpeningPct with 0 < percent < 100
ClaimPartlyOpen == ValveStep /\ 0 < ClaimPercent(v_hist'.pct) /\ ClaimPercent(v_hist'.pct) < 100

\* the origin moved by a whole number of cycles and the phase is below one cycle
ClaimOriginAdvance ==
    LET d == Sub32(cycle_start_ms_', cycle_start_ms_)
    IN  /\ Mul32Small(Div32Small(d, VALVE_CYCLE_MS), VALVE_CYCLE_MS) = d
        /\ Lt32(Sub32(v_clock', cycle_start_ms_'), u32(VALVE_CYCLE_MS))

\* the phase is the one the same driver has on a clock that does not wrap
ClaimPhaseAsUnwrapped ==
    Sub32(v_clock', cycle_start_ms_') = WideSub(v_hist'.uclock, v_hist'.ut0)

\* C21, as claimed: every call with 0 < percent < 100 moves the origin by a
\* whole number of cycles, leaves (now - t0) mod 2^32 below one cycle, and
\* has the phase it would have on a clock that does not wrap
C21_PhaseAsUnwrappedAlways ==
    [][ClaimPartlyOpen => (ClaimOriginAdvance /\ ClaimPhaseAsUnwrapped)]_vars

\* C21: every call with 0 < percent < 100 moves the origin by a whole number
\* of cycles and leaves (now - t0) mod 2^32 below one cycle; its phase is the
\* one it would have on a clock that does not wrap as long as every such
\* call so far came less than 2^32 ms after the origin, which calls with a
\* percent of 0 or 100 leave where it is
C21_PhaseAsUnwrappedWhileFresh ==
    [][ClaimPartlyOpen =>
        /\ ClaimOriginAdvance
        /\ v_hist'.fresh => ClaimPhaseAsUnwrapped]_vars

\* C21 witness: a partly open valve is driven after the clock wrapped, the
\* origin advanced across the wrap by more than one cycle
C21_Witness ==
    /\ v_hist.calls > 0
    /\ v_hist.fresh
    /\ ClaimPercent(v_hist.pct) = 30
    /\ v_hist.uclock[1] >= W16
    /\ Lt32(cycle_start_ms_, ValveClockStart)
    /\ Sub32(v_clock, cycle_start_ms_) # u32(0)

\* C21 witness: a partly open valve is driven 2^32 ms or more after the
\* origin was last moved
C21_WitnessStale ==
    /\ v_hist.calls > 0
    /\ ~v_hist.fresh
    /\ ClaimPercent(v_hist.pct) = 30

\* C22: in a run at a constant integer percent p on a 1 ms clock, after every
\* whole number N of cycles the pin was HIGH for N * floor(500 * p / 100) ms
\* within one tick; at p = 0 the pin is LOW at every tick and at p = 100 it
\* is HIGH at every tick
C22_CumulativeHigh ==
    LET p == ClaimPercent(v_hist.pct)
        n == v_hist.calls \div VALVE_CYCLE_MS
        want == n * ((500 * p) \div 100)
    IN  /\ v_hist.calls % VALVE_CYCLE_MS = 0 =>
               (v_hist.high - want <= 1 /\ want - v_hist.high <= 1)
        /\ p = 0 => (v_hist.high = 0 /\ v_pin = "LOW")
        /\ (p = 100 /\ v_hist.calls > 0) => (v_hist.high = v_hist.calls /\ v_pin = "HIGH")

\* C22 witness: ten cycles at 30 % were run and the pin was HIGH for 1500 ms
C22_Witness ==
    /\ v_hist.pct = 300
    /\ v_hist.calls = 10 * VALVE_CYCLE_MS
    /\ v_hist.high = 1500

\* C22 witness: a run at 100 % reached a cycle boundary
C22_WitnessOpen ==
    /\ v_hist.pct = 1000
    /\ v_hist.calls = 2 * VALVE_CYCLE_MS
    /\ v_pin = "HIGH"

\* C20 witness: a partly open valve is driven HIGH after the clock wrapped
\* and the origin advanced
C20_Witness ==
    /\ v_hist.calls > 0
    /\ ClaimPercent(v_hist.pct) = 30
    /\ v_pin = "HIGH"
    /\ Lt32(v_clock, ValveClockStart)
    /\ cycle_start_ms_ # ValveClockStart

\* C20 witness: a partly open valve is driven LOW
C20_WitnessLow ==
    /\ v_hist.calls > 0
    /\ ClaimPercent(v_hist.pct) = 30
    /\ v_pin = "LOW"

\* C20 witness: a closed valve (percent rounds to 0) long after the origin
C20_WitnessClosed ==
    /\ v_hist.calls > 0
    /\ v_hist.pct = 4
    /\ v_pin = "LOW"
    /\ Ge32(Sub32(v_clock, cycle_start_ms_), u32(VALVE_CYCLE_MS))

\* C20 witness: an open valve (percent rounds to 100) long after the origin
C20_WitnessOpen ==
    /\ v_hist.calls > 0
    /\ v_hist.pct = 995
    /\ v_pin = "HIGH"
    /\ Ge32(Sub32(v_clock, cycle_start_ms_), u32(VALVE_CYCLE_MS))

(***************************************************************************)
(* The link end to end: what is put on the wire                            *)
(***************************************************************************)
\* g_tx_seq of the ground relay when a command is typed
LinkSeqs == {0, SYNC1, 255}

\* the floats the shell lines put in a payload, each with the four octets of
\* its IEEE 754 single in little-endian order
FloatTable == {<<0, <<0, 0, 0, 0>>>>, <<40, <<0, 0, 32, 66>>>>, <<50, <<0, 0, 72, 66>>>>}

\* memcpy of a float into a packed payload
FloatOctets(v) == (CHOOSE t \in FloatTable : t[1] = v)[2]

\* memcpy of four payload octets into a float
FloatOfOctets(o) == (CHOOSE t \in FloatTable : t[2] = o)[1]

\* the packed payload struct of a command, octet by octet
PayloadOctets(msg_type, p) ==
    IF msg_type = MSG_MODE_SWITCH THEN <<p.mode>>
    ELSE IF msg_type = MSG_MANUAL_CMD_V1
    THEN <<p.flags>> \o FloatOctets(p.heater_power_pct) \o FloatOctets(p.valve_opening_pct)
         \o FloatOctets(p.pump_target_temp_c)
    ELSE IF msg_type = MSG_SETPOINTS_V1
    THEN FloatOctets(p.target_temp_c) \o FloatOctets(p.target_pressure_pa)
         \o FloatOctets(p.target_valve_opening_pct) \o FloatOctets(p.target_pump_temp_c)
         \o <<p.enable_mask>>
    ELSE <<>>

\* startReliableSend: the octets FrameCodec::encode writes for the command
FrameOctets(f) == encodeBytes(f.msg_type, f.seq, PayloadOctets(f.msg_type, f.p), 256)

\* UartLink::poll: the frame handleFrame is given for a FrameView (memcpy of
\* the payload into the struct of the message type when the length fits)
CtrlFrameOf(v) ==
    [msg_type |-> v.msg_type, seq |-> v.seq, payload_len |-> Len(v.payload),
     p |-> IF v.msg_type = MSG_MODE_SWITCH /\ Len(v.payload) = SIZEOF_ModeSwitch
           THEN [mode |-> v.payload[1]]
           ELSE IF v.msg_type = MSG_MANUAL_CMD_V1 /\ Len(v.payload) = SIZEOF_ManualCmdV1
           THEN [flags |-> v.payload[1],
                 heater_power_pct |-> FloatOfOctets(SubSeq(v.payload, 2, 5)),
                 valve_opening_pct |-> FloatOfOctets(SubSeq(v.payload, 6, 9)),
                 pump_target_temp_c |-> FloatOfOctets(SubSeq(v.payload, 10, 13))]
           ELSE IF v.msg_type = MSG_SETPOINTS_V1 /\ Len(v.payload) = SIZEOF_SetpointsV1
           THEN [target_temp_c |-> FloatOfOctets(SubSeq(v.payload, 1, 4)),
                 target_pressure_pa |-> FloatOfOctets(SubSeq(v.payload, 5, 8)),
                 target_valve_opening_pct |-> FloatOfOctets(SubSeq(v.payload, 9, 12)),
                 target_pump_temp_c |-> FloatOfOctets(SubSeq(v.payload, 13, 16)),
                 enable_mask |-> v.payload[17]]
           ELSE NoPayload]

\* variant: the Ack is encoded with sequence 0
AckOctets_seqZero(a) == encodeBytes(MSG_ACK, 0, <<a.p.acked_msg_type, a.p.status>>, 32)

\* UartLink::sendAck: the octets FrameCodec::encode writes into buf[32]
AckOctets(a) == encodeBytes(MSG_ACK, a.seq, <<a.p.acked_msg_type, a.p.status>>, 32)

\* lines typed on the ground relay that submit a command
LinkLines == { line \in GndShellLines : LineSubmits(line) }

\* the commands these lines submit, as startReliableSend keeps them
LinkFrames ==
    { handleLine([pending |-> PendingCmdInit, tx_seq |-> s, man |-> PayloadManualCmdInit,
                  sp |-> PayloadSetpointsInit, raw |-> FALSE, tx |-> "NONE", lines |-> <<>>],
                 line, u32(0), "OK").pending.frame : line \in LinkLines, s \in LinkSeqs }

\* the radio packets of these commands
LinkPackets == { FrameOctets(f) : f \in LinkFrames }

\* the Acks of these commands as the air relay parses them from the UART
LinkAckFrames ==
    { [msg_type |-> MSG_ACK, seq |-> s, payload |-> <<t, st>>]
        : s \in LinkSeqs, t \in {MSG_MODE_SWITCH, MSG_MANUAL_CMD_V1, MSG_SETPOINTS_V1},
          st \in {ACK_OK, ACK_ERR} }

(***************************************************************************)
(* Air relay (AirGateway main): globals, heartbeat, UART and radio paths   *)
(***************************************************************************)
HEARTBEAT_PERIOD_MS == 500
LORA_TELEM_PERIOD_MS == 500
\* serviceLoRaTx: telemetry is held back this long after a downlink
TELEM_SUPPRESS_MS == 80

RECURSIVE parseFrom(_, _, _)
\* the frames a parser in state p emits for the octets bytes[i..]
parseFrom(p, bytes, i) ==
    IF i > Len(bytes) THEN <<>>
    ELSE LET r == feed(p, bytes[i])
         IN  IF r.emit
             THEN <<[msg_type |-> r.frame.msg_type, seq |-> r.frame.seq,
                     payload |-> r.frame.payload]>> \o parseFrom(r.parser, bytes, i + 1)
             ELSE parseFrom(r.parser, bytes, i + 1)

\* handleLoRaRx: the frames a fresh parser emits for a packet
parsePacket(bytes) == parseFrom(ParserReset, bytes, 1)

\* variant: the payload length of a mode switch is not looked at
isAllowedDownlink_anyLength(msg_type, payload_len) ==
    IF msg_type = MSG_MODE_SWITCH THEN TRUE
    ELSE IF msg_type = MSG_MANUAL_CMD_V1 THEN payload_len = 13
    ELSE IF msg_type = MSG_SETPOINTS_V1 THEN payload_len = 17
    ELSE IF msg_type = MSG_HEARTBEAT THEN payload_len = 0
    ELSE FALSE

\* isAllowedDownlink
isAllowedDownlink(msg_type, payload_len) ==
    IF msg_type = MSG_MODE_SWITCH THEN payload_len = 1
    ELSE IF msg_type = MSG_MANUAL_CMD_V1 THEN payload_len = 13
    ELSE IF msg_type = MSG_SETPOINTS_V1 THEN payload_len = 17
    ELSE IF msg_type = MSG_HEARTBEAT THEN payload_len = 0
    ELSE FALSE

\* variant: as many octets as Serial1 has room for are written
uart1WriteDropIfBusy_partial(u, pkt) ==
    IF pkt = <<>> THEN u
    ELSE IF u.avail < Len(pkt)
    THEN [tx |-> Append(u.tx, SubSeq(pkt, 1, u.avail)), avail |-> 0, drops |-> u.drops + 1]
    ELSE [tx |-> Append(u.tx, pkt), avail |-> u.avail - Len(pkt), drops |-> u.drops]

\* uart1WriteDropIfBusy(pkt): u is Serial1 before the call (what was written,
\* availableForWrite) with the drop counter, the result is the same after it
uart1WriteDropIfBusy(u, pkt) ==
    IF pkt = <<>> THEN u
    ELSE IF u.avail < Len(pkt)
    THEN [u EXCEPT !.drops = @ + 1]
    ELSE [tx |-> Append(u.tx, pkt), avail |-> u.avail - Len(pkt), drops |-> u.drops]

\* sendHeartbeat(now_ms): heartbeat time, g_tx_seq and Serial1 after the call
sendHeartbeat(now_ms, last_hb, seq, u) ==
    IF Ge32(Sub32(now_ms, last_hb), u32(HEARTBEAT_PERIOD_MS))
    THEN [last_hb |-> now_ms, seq |-> (seq + 1) % U8,
          uart |-> uart1WriteDropIfBusy(u, encodeBytes(MSG_HEARTBEAT, seq, <<>>, 256))]
    ELSE [last_hb |-> last_hb, seq |-> seq, uart |-> u]

(***************************************************************************)
(* Air relay: inputs, and what the codec makes of them                     *)
(***************************************************************************)
\* millis() when setup() ends
AirClockStart == u32(1000)

\* millis() advance between two loop() iterations
AirDeltas == {40, 500}

\* frames the controller sends on the UART: two Acks, telemetry, and a
\* frame of another type (high priority as well)
AirAck1 == [msg_type |-> MSG_ACK, seq |-> 1, payload |-> <<MSG_MODE_SWITCH, ACK_OK>>]
AirAck2 == [msg_type |-> MSG_ACK, seq |-> 2, payload |-> <<MSG_SETPOINTS_V1, ACK_OK>>]
AirTelem == [msg_type |-> MSG_TELEM_V1, seq |-> 3, payload |-> <<0, 1>>]
AirOther == [msg_type |-> MSG_UNKNOWN, seq |-> 4, payload |-> <<>>]

AirUartFrames == {AirAck1, AirAck2, AirTelem, AirOther}

\* a later telemetry frame, and the batches that hold telemetry frames in
\* both orders
AirTelem2 == [msg_type |-> MSG_TELEM_V1, seq |-> 7, payload |-> <<0, 2>>]

AirTelemBatches ==
    {<<>>, <<AirTelem>>, <<AirTelem2>>, <<AirTelem, AirTelem2>>, <<AirTelem2, AirTelem>>,
     <<AirAck1>>}

\* millis() advance between two loop() iterations: two of them add up to the
\* telemetry period
AirTelemDeltas == {40, 460, 500}

\* what the parser yields in one handleUartRx call
AirUartBatches == SeqsUpTo(AirUartFrames, MaxAirBatch)

\* Serial1.availableForWrite() when a step starts writing: no room, room for
\* a heartbeat only, for a mode switch only, for everything
AirAvails == {0, 7, 8, 64}

\* the octets of the downlink frames
AirModeSwitchPkt == encodeBytes(MSG_MODE_SWITCH, 9, <<MODE_AUTO>>, 256)
AirHeartbeatPkt == encodeBytes(MSG_HEARTBEAT, 10, <<>>, 256)
AirManualPkt == encodeBytes(MSG_MANUAL_CMD_V1, 11, Filled(13, 1), 256)
AirSetpointsPkt == encodeBytes(MSG_SETPOINTS_V1, 12, Filled(17, 2), 256)

\* packets that hold an allowed downlink frame: alone, behind a prelude of
\* noise (without and with the octet 0x55), two frames in one packet
AirGoodPackets ==
    {AirModeSwitchPkt, AirHeartbeatPkt, AirManualPkt, AirSetpointsPkt,
     <<0, 255>> \o AirModeSwitchPkt,
     <<0, SYNC1>> \o AirModeSwitchPkt,
     AirModeSwitchPkt \o AirHeartbeatPkt}

\* packets that hold none: telemetry, an Ack, an unknown type, a mode switch
\* of the wrong length, a mode switch with a wrong CRC octet, one cut in
\* the middle, noise
AirBadPackets ==
    {encodeBytes(MSG_TELEM_V1, 5, <<0, 1>>, 256),
     encodeBytes(MSG_ACK, 6, <<MSG_MODE_SWITCH, ACK_OK>>, 256),
     encodeBytes(MSG_UNKNOWN, 7, <<>>, 256),
     encodeBytes(MSG_MODE_SWITCH, 8, <<MODE_AUTO, 0>>, 256),
     [i \in 1..8 |-> IF i = 7 THEN FlipBit(AirModeSwitchPkt[i], 0) ELSE AirModeSwitchPkt[i]],
     SubSeq(AirModeSwitchPkt, 1, 5),
     <<1, 2, 3>>}

\* radio packets, each with the time millis() advanced by when it is read
\* again after the packet was handled
AirRxPackets ==
    { [bytes |-> b, late |-> 0] : b \in AirGoodPackets \cup AirBadPackets }
    \cup { [bytes |-> AirModeSwitchPkt, late |-> 1] }

\* the radio packets of the uplink side: a mode switch, telemetry
AirUpPackets ==
    { rx \in AirRxPackets : rx.bytes \in {AirModeSwitchPkt, encodeBytes(MSG_TELEM_V1, 5, <<0, 1>>, 256)} }

\* what the parser yields in one handleUartRx call, on the downlink side
AirDownBatches == {<<>>, <<AirTelem>>, <<AirAck1>>}

\* LoRaLink::pollReceive returned false
AirNoPacket == [bytes |-> <<>>, late |-> 0]

\* FrameCodec::encode of each frame the relay re-encodes into pkt[256]
AirEncodeTable ==
    { <<f, encodeBytes(f.msg_type, f.seq, f.payload, 256)>>
        : f \in AirUartFrames \cup {AirTelem2} \cup LinkAckFrames
                 \cup UNION { { parsePacket(b)[i] : i \in 1..Len(parsePacket(b)) }
                               : b \in { rx.bytes : rx \in AirRxPackets } \cup LinkPackets } }

\* the octets of frame f as the relay re-encodes it
AirEncode(f) == (CHOOSE t \in AirEncodeTable : t[1] = f)[2]

\* handleLoRaRx: for each packet, the frames a fresh parser emits and
\* isAllowedDownlink accepts, re-encoded (an empty entry for a frame refused)
AirForwardsTable ==
    { <<b,
        LET fs == parsePacket(b)
        IN  [i \in 1..Len(fs) |-> IF isAllowedDownlink(fs[i].msg_type, Len(fs[i].payload))
                                  THEN AirEncode(fs[i]) ELSE <<>>]>>
        : b \in { rx.bytes : rx \in AirRxPackets \cup {AirNoPacket} } \cup LinkPackets }

\* the frames to forward for a packet
AirForwards(bytes) == (CHOOSE t \in AirForwardsTable : t[1] = bytes)[2]

RECURSIVE uartRxSlots(_, _, _, _)
\* handleUartRx: the two slots after the frames fs[i..] were parsed, each
\* re-encoded and stored in the slot of its kind over what the slot held
uartRxSlots(fs, i, hi, telem) ==
    IF i > Len(fs) THEN [hi |-> hi, telem |-> telem]
    ELSE LET pkt == AirEncode(fs[i])
         IN  IF pkt = <<>> THEN uartRxSlots(fs, i + 1, hi, telem)
             ELSE IF fs[i].msg_type = MSG_TELEM_V1
             THEN uartRxSlots(fs, i + 1, hi, pkt)
             ELSE uartRxSlots(fs, i + 1, pkt, telem)

\* a slot holds something that does not start like a frame
SlotInvalid(buf) == Len(buf) < 3 \/ buf[1] # SYNC1 \/ buf[2] # SYNC2

\* variant: the high-priority slot is emptied whatever sendEx returns
serviceLoRaTx_clearAlways(now_ms, ok, hi, telem, last_telem, last_down, r) ==
    LET same == [hi |-> hi, telem |-> telem, last_telem |-> last_telem, sent |-> <<>>, attempts |-> <<>>, result |-> "NONE"]
        suppress_telem == Lt32(Sub32(now_ms, last_down), u32(TELEM_SUPPRESS_MS))
    IN  IF ~ok THEN same
        ELSE IF Len(hi) > 0
        THEN IF SlotInvalid(hi) THEN [same EXCEPT !.hi = <<>>]
             ELSE [same EXCEPT !.hi = <<>>, !.sent = hi, !.attempts = <<hi>>, !.result = r]
        ELSE IF ~suppress_telem /\ Len(telem) > 0
                /\ Ge32(Sub32(now_ms, last_telem), u32(LORA_TELEM_PERIOD_MS))
        THEN IF SlotInvalid(telem) THEN [same EXCEPT !.telem = <<>>]
             ELSE IF r = "OK"
             THEN [same EXCEPT !.telem = <<>>, !.last_telem = now_ms, !.sent = telem, !.attempts = <<telem>>, !.result = r]
             ELSE [same EXCEPT !.sent = telem, !.attempts = <<telem>>, !.result = r]
        ELSE same

\* variant: the telemetry slot is emptied and the time stamped whatever sendEx returns
serviceLoRaTx_telemClearAlways(now_ms, ok, hi, telem, last_telem, last_down, r) ==
    LET same == [hi |-> hi, telem |-> telem, last_telem |-> last_telem, sent |-> <<>>, attempts |-> <<>>, result |-> "NONE"]
        suppress_telem == Lt32(Sub32(now_ms, last_down), u32(TELEM_SUPPRESS_MS))
    IN  IF ~ok THEN same
        ELSE IF Len(hi) > 0
        THEN IF SlotInvalid(hi) THEN [same EXCEPT !.hi = <<>>]
             ELSE IF r = "OK"
             THEN [same EXCEPT !.hi = <<>>, !.sent = hi, !.attempts = <<hi>>, !.result = r]
             ELSE [same EXCEPT !.sent = hi, !.attempts = <<hi>>, !.result = r]
        ELSE IF ~suppress_telem /\ Len(telem) > 0
                /\ Ge32(Sub32(now_ms, last_telem), u32(LORA_TELEM_PERIOD_MS))
        THEN IF SlotInvalid(telem) THEN [same EXCEPT !.telem = <<>>]
             ELSE [same EXCEPT !.telem = <<>>, !.last_telem = now_ms, !.sent = telem, !.attempts = <<telem>>, !.result = r]
        ELSE same

\* variant: telemetry is sent whenever the slot holds a frame
serviceLoRaTx_noPeriod(now_ms, ok, hi, telem, last_telem, last_down, r) ==
    LET same == [hi |-> hi, telem |-> telem, last_telem |-> last_telem, sent |-> <<>>, attempts |-> <<>>, result |-> "NONE"]
        suppress_telem == Lt32(Sub32(now_ms, last_down), u32(TELEM_SUPPRESS_MS))
    IN  IF ~ok THEN same
        ELSE IF Len(hi) > 0
        THEN IF SlotInvalid(hi) THEN [same EXCEPT !.hi = <<>>]
             ELSE IF r = "OK"
             THEN [same EXCEPT !.hi = <<>>, !.sent = hi, !.attempts = <<hi>>, !.result = r]
             ELSE [same EXCEPT !.sent = hi, !.attempts = <<hi>>, !.result = r]
        ELSE IF ~suppress_telem /\ Len(telem) > 0
        THEN IF SlotInvalid(telem) THEN [same EXCEPT !.telem = <<>>]
             ELSE IF r = "OK"
             THEN [same EXCEPT !.telem = <<>>, !.last_telem = now_ms, !.sent = telem, !.attempts = <<telem>>, !.result = r]
             ELSE [same EXCEPT !.sent = telem, !.attempts = <<telem>>, !.result = r]
        ELSE same

\* variant: the high-priority branch returns only when sendEx returned OK, so
\* that the telemetry branch runs after a BUSY or FAIL
serviceLoRaTx_fallsThrough(now_ms, ok, hi, telem, last_telem, last_down, r) ==
    LET same == [hi |-> hi, telem |-> telem, last_telem |-> last_telem, sent |-> <<>>, attempts |-> <<>>, result |-> "NONE"]
        suppress_telem == Lt32(Sub32(now_ms, last_down), u32(TELEM_SUPPRESS_MS))
        due == /\ ~suppress_telem /\ Len(telem) > 0
               /\ Ge32(Sub32(now_ms, last_telem), u32(LORA_TELEM_PERIOD_MS))
    IN  IF ~ok THEN same
        ELSE IF Len(hi) > 0 /\ SlotInvalid(hi) THEN [same EXCEPT !.hi = <<>>]
        ELSE IF Len(hi) > 0 /\ r = "OK"
        THEN [same EXCEPT !.hi = <<>>, !.sent = hi, !.attempts = <<hi>>, !.result = r]
        ELSE IF due
        THEN IF SlotInvalid(telem) THEN [same EXCEPT !.telem = <<>>]
             ELSE [same EXCEPT !.sent = telem, !.result = r,
                               !.attempts = (IF Len(hi) > 0 THEN <<hi>> ELSE <<>>) \o <<telem>>]
        ELSE IF Len(hi) > 0
        THEN [same EXCEPT !.sent = hi, !.attempts = <<hi>>, !.result = r]
        ELSE same

\* serviceLoRaTx(now_ms) when LoRaLink::sendEx returns r: the slots and the
\* telemetry time after the call, the packets given to sendEx (sent: the
\* last of them) and the result
serviceLoRaTx(now_ms, ok, hi, telem, last_telem, last_down, r) ==
    LET same == [hi |-> hi, telem |-> telem, last_telem |-> last_telem, sent |-> <<>>, attempts |-> <<>>, result |-> "NONE"]
        suppress_telem == Lt32(Sub32(now_ms, last_down), u32(TELEM_SUPPRESS_MS))
    IN  IF ~ok THEN same
        ELSE IF Len(hi) > 0
        THEN IF SlotInvalid(hi) THEN [same EXCEPT !.hi = <<>>]
             ELSE IF r = "OK"
             THEN [same EXCEPT !.hi = <<>>, !.sent = hi, !.attempts = <<hi>>, !.result = r]
             ELSE [same EXCEPT !.sent = hi, !.attempts = <<hi>>, !.result = r]
        ELSE IF ~suppress_telem /\ Len(telem) > 0
                /\ Ge32(Sub32(now_ms, last_telem), u32(LORA_TELEM_PERIOD_MS))
        THEN IF SlotInvalid(telem) THEN [same EXCEPT !.telem = <<>>]
             ELSE IF r = "OK"
             THEN [same EXCEPT !.telem = <<>>, !.last_telem = now_ms, !.sent = telem, !.attempts = <<telem>>, !.result = r]
             ELSE [same EXCEPT !.sent = telem, !.attempts = <<telem>>, !.result = r]
        ELSE same

(***************************************************************************)
(* Air relay: setup and loop                                               *)
(***************************************************************************)
AirHistInit ==
    [ticks |-> 0,
     batch |-> <<>>,      \* frames of the handleUartRx call just made
     acks |-> {},         \* Ack frames parsed from the UART, as re-encoded
     sent_ok |-> {},      \* Ack packets for which sendEx returned OK
     result |-> "NONE",   \* result of this iteration's sendEx call
     sent |-> <<>>,       \* packet given to sendEx in this iteration
     attempts |-> <<>>,   \* every packet given to sendEx in this iteration, in order
     latest_telem |-> <<>>, \* the latest telemetry frame parsed from the UART, as re-encoded
     overwritten |-> <<>>, \* the telemetry frame that a different one last replaced in the slot
     telem_ok |-> FALSE,  \* a TX of telemetry has returned OK
     telem_ok_ms |-> u32(0), \* now_ms of the latest iteration in which it did
     rx |-> <<>>,         \* radio packet read by the handleLoRaRx call just made
     raw |-> FALSE,       \* g_lora_raw during that call
     avail |-> 64,        \* Serial1.availableForWrite() when the last step began
     down |-> FALSE,      \* a downlink frame was forwarded before
     sniffed |-> FALSE]   \* a packet was received while g_lora_raw was on

\* setup: one heartbeat was sent with g_tx_seq 0
AirInit ==
    /\ a_pc = "loop"
    /\ a_clock = AirClockStart
    /\ a_now_ms = AirClockStart
    /\ a_tx_seq = 1
    /\ g_last_hb_ms = AirClockStart
    /\ g_tx_hi_buf = <<>>
    /\ g_tx_telem_buf = <<>>
    /\ g_last_telem_lora_ms = u32(0)
    /\ g_last_downlink_ms = u32(0)
    /\ g_lora_ok \in BOOLEAN
    /\ a_lora_raw = FALSE
    /\ g_uart_drop_downlink = 0
    /\ a_uart_tx = <<>>
    /\ air_hist = AirHistInit

\* loop: now_ms = millis(), dt after the previous iteration; sendHeartbeat,
\* Serial1 having room for avail octets
AirLoopBegin(dt, avail) ==
    /\ a_pc = "loop"
    /\ a_clock' = Add32(a_clock, u32(dt))
    /\ a_now_ms' = a_clock'
    /\ LET hb == sendHeartbeat(a_now_ms', g_last_hb_ms, a_tx_seq,
                               [tx |-> <<>>, avail |-> avail, drops |-> g_uart_drop_downlink])
       IN  /\ (hb.last_hb = g_last_hb_ms => avail = 64)
           /\ g_last_hb_ms' = hb.last_hb
           /\ a_tx_seq' = hb.seq
           /\ a_uart_tx' = hb.uart.tx
           /\ g_uart_drop_downlink' = hb.uart.drops
    /\ air_hist' = [air_hist EXCEPT !.ticks = @ + 1, !.result = "NONE", !.sent = <<>>,
                                    !.attempts = <<>>,
                                    !.avail = avail]
    /\ a_pc' = "uart"
    /\ UNCHANGED <<g_tx_hi_buf, g_tx_telem_buf, g_last_telem_lora_ms, g_last_downlink_ms,
                   g_lora_ok, a_lora_raw>>

\* loop: handleUartRx, the parser yielding the frames fs
AirUartRx(fs) ==
    /\ a_pc = "uart"
    /\ LET sl == uartRxSlots(fs, 1, g_tx_hi_buf, g_tx_telem_buf)
       IN  /\ g_tx_hi_buf' = sl.hi
           /\ g_tx_telem_buf' = sl.telem
    /\ air_hist' = [air_hist EXCEPT
                       !.batch = fs,
                       !.latest_telem =
                           LET ts == SelectSeq(fs, LAMBDA f : f.msg_type = MSG_TELEM_V1)
                           IN  IF ts = <<>> THEN @ ELSE AirEncode(ts[Len(ts)]),
                       !.overwritten =
                           LET ts == SelectSeq(fs, LAMBDA f : f.msg_type = MSG_TELEM_V1)
                               chain == (IF g_tx_telem_buf = <<>> THEN <<>> ELSE <<g_tx_telem_buf>>)
                                        \o [i \in 1..Len(ts) |-> AirEncode(ts[i])]
                               n == Len(chain)
                           IN  IF n >= 2 /\ chain[n - 1] # chain[n] THEN chain[n - 1] ELSE @,
                       !.avail = 64,
                       !.acks = @ \cup { AirEncode(fs[i]) : i \in { j \in 1..Len(fs) : fs[j].msg_type = MSG_ACK } }]
    /\ a_uart_tx' = <<>>
    /\ a_pc' = "lora"
    /\ UNCHANGED <<a_clock, a_now_ms, a_tx_seq, g_last_hb_ms, g_last_telem_lora_ms,
                   g_last_downlink_ms, g_lora_ok, a_lora_raw, g_uart_drop_downlink>>

RECURSIVE AirWriteAll(_, _, _)
\* handleLoRaRx: uart1WriteDropIfBusy for each frame to forward
AirWriteAll(u, pkts, i) ==
    IF i > Len(pkts) THEN u
    ELSE AirWriteAll(uart1WriteDropIfBusy(u, pkts[i]), pkts, i + 1)

\* variant: raw sniff mode does not stop the forwarding
airHandleLoRaRx_rawForwards(bytes, raw, u) ==
    LET pkts == AirForwards(bytes)
    IN  [uart |-> AirWriteAll(u, pkts, 1),
         forwarded |-> Cardinality({ i \in 1..Len(pkts) : pkts[i] # <<>> })]

\* handleLoRaRx for the packet bytes (none when pollReceive returns false):
\* Serial1 and the drop counter after the call, the count of frames forwarded
airHandleLoRaRx(bytes, raw, u) ==
    IF bytes = <<>> \/ raw THEN [uart |-> u, forwarded |-> 0]
    ELSE LET pkts == AirForwards(bytes)
         IN  [uart |-> AirWriteAll(u, pkts, 1),
              forwarded |-> Cardinality({ i \in 1..Len(pkts) : pkts[i] # <<>> })]

\* loop: handleLoRaRx, pollReceive returning the packet rx (or nothing),
\* Serial1 having room for avail octets
AirLoRaRx(rx, avail) ==
    /\ a_pc = "lora"
    /\ LET h == airHandleLoRaRx(rx.bytes, a_lora_raw,
                             [tx |-> <<>>, avail |-> avail, drops |-> g_uart_drop_downlink])
       IN  /\ (h.forwarded = 0 => (avail = 64 /\ rx.late = 0))
           /\ a_uart_tx' = h.uart.tx
           /\ g_uart_drop_downlink' = h.uart.drops
           /\ a_clock' = Add32(a_clock, u32(rx.late))
           /\ g_last_downlink_ms' = IF h.forwarded = 0 THEN g_last_downlink_ms ELSE a_clock'
           /\ air_hist' = [air_hist EXCEPT !.batch = <<>>, !.rx = rx.bytes, !.raw = a_lora_raw,
                                           !.avail = avail,
                                           !.down = @ \/ h.forwarded > 0,
                                           !.sniffed = @ \/ (a_lora_raw /\ rx.bytes # <<>>)]
    /\ a_pc' = "tx"
    /\ UNCHANGED <<a_now_ms, a_tx_seq, g_last_hb_ms, g_tx_hi_buf, g_tx_telem_buf,
                   g_last_telem_lora_ms, g_lora_ok, a_lora_raw>>

\* loop: serviceLoRaTx(now_ms), sendEx returning r if it is called
AirServiceTx(r) ==
    /\ a_pc = "tx"
    /\ LET s == serviceLoRaTx(a_now_ms, g_lora_ok, g_tx_hi_buf, g_tx_telem_buf,
                              g_last_telem_lora_ms, g_last_downlink_ms, r)
       IN  /\ (s.result = "NONE" => r = "OK")
           /\ g_tx_hi_buf' = s.hi
           /\ g_tx_telem_buf' = s.telem
           /\ g_last_telem_lora_ms' = s.last_telem
           /\ air_hist' = [air_hist EXCEPT
                              !.result = s.result,
                              !.sent = s.sent,
                              !.attempts = s.attempts,
                              !.telem_ok = @ \/ (s.result = "OK" /\ s.sent[4] = MSG_TELEM_V1),
                              !.telem_ok_ms = IF s.result = "OK" /\ s.sent[4] = MSG_TELEM_V1
                                              THEN a_now_ms ELSE @,
                              !.rx = <<>>,
                              !.raw = FALSE,
                              !.avail = 64,
                              !.sent_ok = IF s.result = "OK" /\ s.sent \in air_hist.acks
                                          THEN @ \cup {s.sent} ELSE @]
    /\ a_uart_tx' = <<>>
    /\ a_pc' = "shell"
    /\ UNCHANGED <<a_clock, a_now_ms, a_tx_seq, g_last_hb_ms, g_last_downlink_ms, g_lora_ok,
                   a_lora_raw, g_uart_drop_downlink>>

\* lines typed on the USB serial port (none: nothing is waiting)
AirLines == {"", "lora raw on", "lora raw off"}

\* handleLine: g_lora_raw after the line
airHandleLine(line, raw) ==
    IF line = "lora raw on" THEN TRUE
    ELSE IF line = "lora raw off" THEN FALSE
    ELSE raw

\* loop: the shell reads what was typed, a whole line or nothing
AirShell(line) ==
    /\ a_pc = "shell"
    /\ a_lora_raw' = airHandleLine(line, a_lora_raw)
    /\ (a_lora_raw' = a_lora_raw => line = "")
    /\ a_pc' = "loop"
    /\ UNCHANGED <<a_clock, a_now_ms, a_tx_seq, g_last_hb_ms, g_tx_hi_buf, g_tx_telem_buf,
                   g_last_telem_lora_ms, g_last_downlink_ms, g_lora_ok,
                   g_uart_drop_downlink, a_uart_tx, air_hist>>

\* the uplink side: every batch from the UART, few radio packets, Serial1
\* never short of room, nothing typed
AirNext ==
    /\ \/ air_hist.ticks < MaxAirTicks /\ \E dt \in AirDeltas : AirLoopBegin(dt, 64)
       \/ \E fs \in AirUartBatches : AirUartRx(fs)
       \/ \E rx \in AirUpPackets \cup {AirNoPacket} : AirLoRaRx(rx, 64)
       \/ \E r \in TxResults : AirServiceTx(r)
       \/ AirShell("")
    /\ UNCHANGED <<ctrlVars, gndVars, codecVars, valveVars, radioVars, gndRxVars, linkVars>>

\* the downlink side: every radio packet, Serial1 with more or less room,
\* lines typed, few batches from the UART
AirDownNext ==
    /\ \/ air_hist.ticks < MaxAirTicks /\ \E dt \in AirDeltas, avail \in AirAvails : AirLoopBegin(dt, avail)
       \/ \E fs \in AirDownBatches : AirUartRx(fs)
       \/ \E rx \in AirRxPackets \cup {AirNoPacket}, avail \in AirAvails : AirLoRaRx(rx, avail)
       \/ \E r \in TxResults : AirServiceTx(r)
       \/ \E line \in AirLines : AirShell(line)
    /\ UNCHANGED <<ctrlVars, gndVars, codecVars, valveVars, radioVars, gndRxVars, linkVars>>

\* the telemetry side: batches of telemetry frames from the UART, no radio
\* packet, Serial1 never short of room, nothing typed
AirTelemNext ==
    /\ \/ air_hist.ticks < MaxAirTelemTicks /\ \E dt \in AirTelemDeltas : AirLoopBegin(dt, 64)
       \/ \E fs \in AirTelemBatches : AirUartRx(fs)
       \/ AirLoRaRx(AirNoPacket, 64)
       \/ \E r \in TxResults : AirServiceTx(r)
       \/ AirShell("")
    /\ UNCHANGED <<ctrlVars, gndVars, codecVars, valveVars, radioVars, gndRxVars, linkVars>>

\* raw sniff mode switched on and off: every radio packet, nothing from the
\* UART, Serial1 never short of room
AirRawNext ==
    /\ \/ air_hist.ticks < MaxAirRawTicks /\ \E dt \in AirDeltas : AirLoopBegin(dt, 64)
       \/ AirUartRx(<<>>)
       \/ \E rx \in AirRxPackets \cup {AirNoPacket} : AirLoRaRx(rx, 64)
       \/ AirServiceTx("OK")
       \/ \E line \in AirLines : AirShell(line)
    /\ UNCHANGED <<ctrlVars, gndVars, codecVars, valveVars, radioVars, gndRxVars, linkVars>>

(***************************************************************************)
(* Air relay: properties                                                   *)
(***************************************************************************)
\* the slot holds an Ack frame
ClaimHoldsAck(buf) == Len(buf) >= 4 /\ buf[4] = MSG_ACK

\* the frames of a batch that go to the high-priority slot
ClaimHiOf(fs) == SelectSeq(fs, LAMBDA f : f.msg_type # MSG_TELEM_V1)

\* C12, as claimed: every Ack frame parsed from the UART is still in the
\* high-priority slot or was given to a radio TX that returned OK
C12_AckNeverDropped ==
    \A a \in air_hist.acks : g_tx_hi_buf = a \/ a \in air_hist.sent_ok

\* C12: an Ack frame parsed from the UART is in the high-priority slot after
\* handleUartRx unless a later high-priority frame of the same call replaced
\* it; it leaves the slot only when a radio TX of that very frame returns OK
\* or when a later high-priority frame from the UART overwrites it: BUSY and
\* FAIL results leave it in the slot
C12_AckLeavesSlotSentOrOverwritten ==
    [][/\ (a_pc = "uart" /\ a_pc' = "lora" /\ ClaimHiOf(air_hist'.batch) # <<>>) =>
            g_tx_hi_buf' = AirEncode(ClaimHiOf(air_hist'.batch)[Len(ClaimHiOf(air_hist'.batch))])
       /\ (ClaimHoldsAck(g_tx_hi_buf) /\ g_tx_hi_buf' # g_tx_hi_buf) =>
            \/ /\ a_pc = "tx"
               /\ air_hist'.result = "OK"
               /\ g_tx_hi_buf \in air_hist'.sent_ok
               /\ g_tx_hi_buf' = <<>>
            \/ /\ a_pc = "uart"
               /\ ClaimHiOf(air_hist'.batch) # <<>>
    ]_vars

\* C12 witness: an Ack is still in the high-priority slot after a radio TX
\* of it returned BUSY or FAIL
C12_Witness ==
    /\ a_pc = "loop"
    /\ air_hist.result \in {"BUSY", "FAIL"}
    /\ air_hist.batch = <<>>
    /\ ClaimHoldsAck(g_tx_hi_buf)
    /\ g_tx_hi_buf \in air_hist.acks

\* C12 witness: two Acks were parsed in one handleUartRx call
C12_WitnessTwoAcks ==
    /\ a_pc = "lora"
    /\ Len(air_hist.batch) = 2
    /\ air_hist.batch[1].msg_type = MSG_ACK
    /\ air_hist.batch[2].msg_type = MSG_ACK
    /\ air_hist.batch[1] # air_hist.batch[2]

\* C12 witness: an Ack was sent by radio with result OK
C12_WitnessSent ==
    \E a \in air_hist.acks : a \in air_hist.sent_ok

\* the TX service of this iteration runs less than TELEM_SUPPRESS_MS after a
\* whitelisted downlink frame was received
ClaimAfterDownlink ==
    /\ a_pc = "tx"
    /\ air_hist.down
    /\ Lt32(Sub32(a_clock, g_last_downlink_ms), u32(TELEM_SUPPRESS_MS))

\* C23, as claimed: when the TX service runs less than 80 ms after a
\* whitelisted downlink frame was received, the tick of the reception
\* included, no telemetry TX is attempted, and a non-empty high-priority slot
\* is still attempted
C23_TelemSuppressedAfterDownlink ==
    [][(ClaimAfterDownlink /\ g_lora_ok) =>
          /\ (g_tx_hi_buf = <<>> => air_hist'.sent = <<>>)
          /\ (g_tx_hi_buf # <<>> => air_hist'.sent = g_tx_hi_buf)
    ]_vars

\* C23, as coded: the same when g_last_downlink_ms is not later than the
\* now_ms of the tick
C23_TelemSuppressedAsCoded ==
    [][(ClaimAfterDownlink /\ g_lora_ok /\ Le32(g_last_downlink_ms, a_now_ms)) =>
          /\ (g_tx_hi_buf = <<>> => air_hist'.sent = <<>>)
          /\ (g_tx_hi_buf # <<>> => air_hist'.sent = g_tx_hi_buf)
    ]_vars

\* the octets w are one whole frame of a type the controller takes from the
\* ground, with the payload length of that type
ClaimDownlinkFrame(w) ==
    /\ Len(w) >= 7
    /\ \/ w[4] = MSG_MODE_SWITCH /\ Len(w) = 7 + 1
       \/ w[4] = MSG_MANUAL_CMD_V1 /\ Len(w) = 7 + 13
       \/ w[4] = MSG_SETPOINTS_V1 /\ Len(w) = 7 + 17
       \/ w[4] = MSG_HEARTBEAT /\ Len(w) = 7
    /\ w = encodeBytes(w[4], w[5], SubSeq(w, 6, Len(w) - 2), 256)

\* the octets w stand in the packet rx, one after the other
ClaimFoundIn(w, rx) ==
    \E i \in 1..(Len(rx) - Len(w) + 1) : SubSeq(rx, i, i + Len(w) - 1) = w

\* C24: every frame handleLoRaRx writes to the controller UART is a
\* ModeSwitch, ManualCmd, Setpoints or Heartbeat frame with a payload of
\* exactly 1, 13, 17 or 0 octets, and is the re-encoding of a CRC-valid frame
\* found in the packet; a packet that holds only telemetry, an Ack, an unknown
\* type, a frame of the wrong length or noise has nothing forwarded
C24_OnlyWhitelistedForwarded ==
    a_pc = "tx" =>
        /\ \A k \in 1..Len(a_uart_tx) :
              /\ ClaimDownlinkFrame(a_uart_tx[k])
              /\ ClaimFoundIn(a_uart_tx[k], air_hist.rx)
        /\ (air_hist.rx \in AirBadPackets => a_uart_tx = <<>>)

\* C24 witness: a packet with noise before a mode switch had the mode switch
\* alone written to the UART
C24_Witness ==
    /\ a_pc = "tx"
    /\ air_hist.rx = <<0, 255>> \o AirModeSwitchPkt
    /\ a_uart_tx = <<AirModeSwitchPkt>>

\* C24 witness: both frames of a packet were written
C24_WitnessTwoFrames ==
    /\ a_pc = "tx"
    /\ a_uart_tx = <<AirModeSwitchPkt, AirHeartbeatPkt>>

\* C24 witness: a mode switch of two payload octets was read, with raw sniff
\* off, and nothing was written
C24_WitnessWrongLength ==
    /\ a_pc = "tx"
    /\ ~air_hist.raw
    /\ air_hist.rx = encodeBytes(MSG_MODE_SWITCH, 8, <<MODE_AUTO, 0>>, 256)
    /\ a_uart_tx = <<>>

\* the frames handleLoRaRx gives to uart1WriteDropIfBusy for the packet rx
ClaimGiven(rx) == SelectSeq(AirForwards(rx), LAMBDA w : w # <<>>)

\* one call of uart1WriteDropIfBusy for the frame w with room for avail
\* octets: the whole frame is written, or nothing is and the drop counter
\* goes up by one
ClaimWrittenOrDropped(w, avail) ==
    IF avail >= Len(w)
    THEN a_uart_tx' = <<w>> /\ g_uart_drop_downlink' = g_uart_drop_downlink
    ELSE a_uart_tx' = <<>> /\ g_uart_drop_downlink' = g_uart_drop_downlink + 1

\* C25: uart1WriteDropIfBusy writes all n octets of a frame if Serial1 has
\* room for at least n, otherwise it writes none of them and adds one to the
\* drop counter; a part of a frame is never written. For the heartbeat of
\* sendHeartbeat and for the frames handleLoRaRx forwards
C25_WholeFrameOrNothing ==
    [][/\ (a_pc = "loop" /\ g_last_hb_ms' # g_last_hb_ms) =>
            ClaimWrittenOrDropped(encodeBytes(MSG_HEARTBEAT, a_tx_seq, <<>>, 256), air_hist'.avail)
       /\ (a_pc = "lora" /\ ~a_lora_raw) =>
            LET given == ClaimGiven(air_hist'.rx)
            IN  /\ \A k \in 1..Len(a_uart_tx') : \E i \in 1..Len(given) : a_uart_tx'[k] = given[i]
                /\ Len(a_uart_tx') + (g_uart_drop_downlink' - g_uart_drop_downlink) = Len(given)
                /\ Len(given) = 1 => ClaimWrittenOrDropped(given[1], air_hist'.avail)
    ]_vars

\* C25 witness: a mode switch of 8 octets met room for 7 and was dropped
C25_Witness ==
    /\ a_pc = "tx"
    /\ air_hist.rx = AirModeSwitchPkt
    /\ ~air_hist.raw
    /\ air_hist.avail = 7
    /\ a_uart_tx = <<>>
    /\ g_uart_drop_downlink >= 1

\* C25 witness: of two frames in a packet the first took all the room and the
\* second was dropped
C25_WitnessSecondDropped ==
    /\ a_pc = "tx"
    /\ air_hist.rx = AirModeSwitchPkt \o AirHeartbeatPkt
    /\ air_hist.avail = 8
    /\ a_uart_tx = <<AirModeSwitchPkt>>
    /\ g_uart_drop_downlink >= 1

\* C25 witness: a heartbeat was dropped for want of room
C25_WitnessHeartbeatDropped ==
    /\ a_pc = "uart"
    /\ air_hist.avail = 0
    /\ a_uart_tx = <<>>
    /\ g_uart_drop_downlink >= 1

\* C26: while raw sniff mode is on, handleLoRaRx writes no octet of a
\* received packet to the controller UART and leaves g_last_downlink_ms as it
\* was; a packet received after the mode was switched off is forwarded again
C26_RawSniffForwardsNothing ==
    [][a_pc = "lora" =>
          /\ a_lora_raw =>
                /\ a_uart_tx' = <<>>
                /\ g_last_downlink_ms' = g_last_downlink_ms
                /\ g_uart_drop_downlink' = g_uart_drop_downlink
          /\ (~a_lora_raw /\ air_hist'.avail = 64) =>
                a_uart_tx' = ClaimGiven(air_hist'.rx)
    ]_vars

\* C26 witness: a mode switch was received while raw sniff mode was on
C26_Witness ==
    /\ a_pc = "tx"
    /\ air_hist.raw
    /\ air_hist.rx = AirModeSwitchPkt
    /\ a_uart_tx = <<>>

\* C26 witness: a packet was received while raw sniff mode was on, the mode
\* was switched off, and the mode switch received afterwards was forwarded
C26_WitnessResumed ==
    /\ a_pc = "tx"
    /\ air_hist.sniffed
    /\ ~air_hist.raw
    /\ air_hist.rx = AirModeSwitchPkt
    /\ a_uart_tx = <<AirModeSwitchPkt>>

(***************************************************************************)
(* Ground relay: radio RX, the packets given as octets to g_rx_parser      *)
(***************************************************************************)
RECURSIVE feedPacket(_, _, _)
\* handleLoRaRx: g_rx_parser.feed for the octets bytes[i..] of a packet, the
\* parser being p before; the parser afterwards and the frames emitted
feedPacket(p, bytes, i) ==
    IF i > Len(bytes) THEN [parser |-> p, frames |-> <<>>]
    ELSE LET r == feed(p, bytes[i])
             rest == feedPacket(r.parser, bytes, i + 1)
         IN  IF r.emit
             THEN [rest EXCEPT !.frames = <<r.frame>> \o @]
             ELSE rest

\* handleLoRaRx: what the ground relay reads in a FrameView (memcpy of the
\* payload into PayloadAck when the frame is an Ack of that size)
GndFrameOf(f) ==
    [msg_type |-> f.msg_type, seq |-> f.seq, payload_len |-> Len(f.payload),
     p |-> IF f.msg_type = MSG_ACK /\ Len(f.payload) = SIZEOF_Ack
           THEN [acked_msg_type |-> f.payload[1], status |-> f.payload[2]]
           ELSE NoPayload]

\* the Ack the controller sends for the first command of the ground relay
GndAckPkt == encodeBytes(MSG_ACK, 0, <<MSG_MODE_SWITCH, ACK_OK>>, 256)

\* packets of one frame: alone, behind a prelude of noise without and with
\* the octet 0x55
GndOneFramePackets == {GndAckPkt, <<0, 255>> \o GndAckPkt, <<0, SYNC1>> \o GndAckPkt}

\* radio packets: one frame, a frame cut after five octets, noise
GndOctetPackets == GndOneFramePackets \cup {SubSeq(GndAckPkt, 1, 5), <<1, 2, 3>>}

\* lines typed on the USB serial port: a mode switch, raw sniffing on
GndRxLines == { line \in GndShellLines : line.arg \in {"manual", "raw on"} }

GndRxInit ==
    /\ g_rx_parser = ParserReset
    /\ gr_hist = [pkts |-> 0, pkt |-> <<>>]

\* loop() up to handleLoRaRx, when pollReceive returns the packet bytes
GndLoopRxOctets(dt, bytes) ==
    /\ gnd_pc = "idle"
    /\ gnd_hist.ticks < MaxGndTyping + MaxGndDrain
    /\ gr_hist.pkts < MaxGndRxPackets
    /\ gnd_pc' = "svc"
    /\ gnd_now_ms' = Add32(gnd_clock, u32(dt))
    /\ gnd_clock' = gnd_now_ms'
    /\ g_last_lora_pkt_ms' = gnd_clock'
    /\ LET fed == IF g_lora_raw THEN [parser |-> g_rx_parser, frames |-> <<>>]
                  ELSE feedPacket(g_rx_parser, bytes, 1)
           fs == [i \in 1..Len(fed.frames) |-> GndFrameOf(fed.frames[i])]
           r == handleLoRaRx(g_pending, g_lora_raw, fs)
       IN  /\ g_rx_parser' = fed.parser
           /\ g_pending' = r.pending
           /\ gnd_lines' = r.lines
           /\ gnd_hist' = [gnd_hist EXCEPT
                             !.ticks = @ + 1,
                             !.tx = "NONE",
                             !.rx = fs,
                             !.pkt = TRUE,
                             !.ever_pkt = TRUE,
                             !.last_pkt_ms = gnd_clock',
                             !.acked = @ \/ (g_pending.active /\ ~r.pending.active)]
    /\ gr_hist' = [pkts |-> gr_hist.pkts + 1, pkt |-> bytes]
    /\ UNCHANGED <<g_tx_seq, g_man, g_sp, g_lora_raw, g_last_lora_reinit_ms>>

\* the ground relay, its radio packets given as octets; the radio never busy
GndRxNext ==
    /\ \/ \E dt \in GndDeltas : GndLoopRxNone(dt) /\ UNCHANGED gndRxVars
       \/ \E dt \in GndDeltas, bytes \in GndOctetPackets : GndLoopRxOctets(dt, bytes)
       \/ GndService("OK") /\ UNCHANGED gndRxVars
       \/ \E line \in GndRxLines : GndShellLine(line, "OK") /\ UNCHANGED gndRxVars
       \/ GndShellNone /\ UNCHANGED gndRxVars
    /\ UNCHANGED <<ctrlVars, codecVars, valveVars, radioVars, airVars, linkVars>>

\* the step reads a radio packet with raw sniffing off
ClaimRxOctetsStep == gr_hist'.pkts = gr_hist.pkts + 1 /\ ~g_lora_raw

\* the pending command is the one GndAckPkt answers
ClaimAwaitsAck == AckMatches(g_pending, sendAck(MSG_MODE_SWITCH, 0, ACK_OK))

\* C28, as claimed, on the ground relay: a packet of an optional prelude of
\* noise followed by one valid frame yields that frame, here the Ack of the
\* pending command, whatever the packets before held
C28_PacketYieldsFrame ==
    [][(ClaimRxOctetsStep /\ ClaimAwaitsAck /\ gr_hist'.pkt \in GndOneFramePackets) =>
          ~g_pending'.active
    ]_vars

\* C28, as claimed, for a packet without prelude on the ground relay: the
\* frame is yielded whatever the packets before held
C28_FrameYieldedAfterAnyPacket ==
    [][(ClaimRxOctetsStep /\ ClaimAwaitsAck /\ gr_hist'.pkt = GndAckPkt) =>
          ~g_pending'.active
    ]_vars

\* C28, as claimed, on the air relay: such a packet has its frame forwarded
C28_AirPacketYieldsFrame ==
    [][(a_pc = "lora" /\ ~a_lora_raw /\ air_hist'.avail = 64
        /\ air_hist'.rx \in {AirModeSwitchPkt, <<0, 255>> \o AirModeSwitchPkt,
                            <<0, SYNC1>> \o AirModeSwitchPkt}) =>
          a_uart_tx' = <<AirModeSwitchPkt>>
    ]_vars

\* C28, as coded: the frame is yielded when the prelude holds no octet 0x55
\* and, on the ground relay, g_rx_parser is not in the middle of a frame
C28_PacketYieldsFrameAsCoded ==
    [][(ClaimRxOctetsStep /\ ClaimAwaitsAck /\ g_rx_parser = ParserReset
        /\ gr_hist'.pkt \in {GndAckPkt, <<0, 255>> \o GndAckPkt}) =>
          ~g_pending'.active
    ]_vars

\* C28, as coded, on the air relay
C28_AirPacketYieldsFrameAsCoded ==
    [][(a_pc = "lora" /\ ~a_lora_raw /\ air_hist'.avail = 64
        /\ air_hist'.rx \in {AirModeSwitchPkt, <<0, 255>> \o AirModeSwitchPkt}) =>
          a_uart_tx' = <<AirModeSwitchPkt>>
    ]_vars

(***************************************************************************)
(* The link end to end: a command typed on the ground relay goes by radio  *)
(* to the air relay, by UART to the controller, and its Ack comes back.    *)
(* Each node runs its loop() when what it waits for is on the wire.        *)
(***************************************************************************)
LinkInit ==
    /\ ln_stage = "submit"
    /\ ln_wire = <<>>
    /\ ln_hist = [cmd |-> NoFrame, ack |-> <<>>]

\* the ground relay after setup and any number of commands before
GndLinkInit ==
    /\ gnd_pc = "idle"
    /\ gnd_clock \in GndClockStarts
    /\ gnd_now_ms = gnd_clock
    /\ g_pending = PendingCmdInit
    /\ g_tx_seq \in LinkSeqs
    /\ g_man = PayloadManualCmdInit
    /\ g_sp = PayloadSetpointsInit
    /\ g_lora_raw = FALSE
    /\ g_last_lora_pkt_ms = u32(0)
    /\ g_last_lora_reinit_ms = u32(0)
    /\ gnd_lines = <<>>
    /\ gnd_hist = GndHistInit

RECURSIVE LinkConcat(_)
\* the octets of successive Serial writes, as they follow on the UART
LinkConcat(ws) == IF ws = <<>> THEN <<>> ELSE Head(ws) \o LinkConcat(Tail(ws))

\* the stages at which the air relay has something to do
LinkAirStages == {"radio_down", "uart_up", "air_slot"}

\* ground relay, loop() up to handleLoRaRx: no packet
LinkGndIdle(dt) ==
    /\ ln_stage = "submit"
    /\ GndLoopRxNone(dt)
    /\ UNCHANGED <<ctrlVars, airVars, gndRxVars, linkVars>>

\* ground relay, loop(): retry service and watchdog, nothing pending
LinkGndService ==
    /\ ln_stage = "submit"
    /\ GndService("OK")
    /\ UNCHANGED <<ctrlVars, airVars, gndRxVars, linkVars>>

\* ground relay, loop(): a line that submits a command; the radio sends it
LinkSubmit(line) ==
    /\ ln_stage = "submit"
    /\ GndShellLine(line, "OK")
    /\ ln_stage' = "radio_down"
    /\ ln_wire' = FrameOctets(g_pending'.frame)
    /\ ln_hist' = [ln_hist EXCEPT !.cmd = g_pending'.frame]
    /\ UNCHANGED <<ctrlVars, airVars, gndRxVars>>

\* air relay, loop(): now_ms, sendHeartbeat
LinkAirBegin(dt) ==
    /\ ln_stage \in LinkAirStages
    /\ air_hist.ticks < MaxLinkAirTicks
    /\ AirLoopBegin(dt, 64)
    /\ UNCHANGED <<ctrlVars, gndVars, gndRxVars, linkVars>>

\* air relay, loop(): handleUartRx reads the Ack if it is on the UART
LinkAirUart ==
    /\ ln_stage \in LinkAirStages
    /\ AirUartRx(IF ln_stage = "uart_up" THEN parsePacket(ln_wire) ELSE <<>>)
    /\ ln_stage' = IF ln_stage = "uart_up" THEN "air_slot" ELSE ln_stage
    /\ ln_wire' = IF ln_stage = "uart_up" THEN <<>> ELSE ln_wire
    /\ UNCHANGED <<ctrlVars, gndVars, gndRxVars, ln_hist>>

\* air relay, loop(): handleLoRaRx reads the command if it is on the radio
\* and writes what it forwards to the UART
LinkAirLoRa ==
    /\ ln_stage \in LinkAirStages
    /\ AirLoRaRx(IF ln_stage = "radio_down" THEN [bytes |-> ln_wire, late |-> 0] ELSE AirNoPacket, 64)
    /\ ln_stage' = IF ln_stage = "radio_down" THEN "uart_down" ELSE ln_stage
    /\ ln_wire' = IF ln_stage = "radio_down" THEN LinkConcat(a_uart_tx') ELSE ln_wire
    /\ UNCHANGED <<ctrlVars, gndVars, gndRxVars, ln_hist>>

\* air relay, loop(): serviceLoRaTx; the Ack is on the radio when sendEx
\* returns OK for it
LinkAirTx(r) ==
    /\ ln_stage \in LinkAirStages
    /\ AirServiceTx(r)
    /\ LET sent == ln_stage = "air_slot" /\ air_hist'.result = "OK"
       IN  /\ ln_stage' = IF sent THEN "radio_up" ELSE ln_stage
           /\ ln_wire' = IF sent THEN air_hist'.sent ELSE ln_wire
    /\ UNCHANGED <<ctrlVars, gndVars, gndRxVars, ln_hist>>

\* air relay, loop(): nothing typed
LinkAirShell ==
    /\ ln_stage \in LinkAirStages \cup {"radio_up"}
    /\ AirShell("")
    /\ UNCHANGED <<ctrlVars, gndVars, gndRxVars, linkVars>>

\* controller, loop(): now_ms
LinkCtrlBegin(dt) ==
    /\ ln_stage = "uart_down"
    /\ parsePacket(ln_wire) # <<>>
    /\ CtrlLoopBegin(dt)
    /\ UNCHANGED <<gndVars, airVars, gndRxVars, linkVars>>

\* controller, UartLink::poll: the frame on the UART is parsed and handled,
\* the Ack is written to the UART
LinkCtrlPoll ==
    /\ ln_stage = "uart_down"
    /\ parsePacket(ln_wire) # <<>>
    /\ CtrlPollFrame(CtrlFrameOf(parsePacket(ln_wire)[1]))
    /\ ln_stage' = "uart_up"
    /\ ln_wire' = LinkConcat([i \in 1..Len(c_uart_tx') |-> AckOctets(c_uart_tx'[i])])
    /\ ln_hist' = [ln_hist EXCEPT !.ack = ln_wire']
    /\ UNCHANGED <<gndVars, airVars, gndRxVars>>

\* controller, loop() after the link poll (its telemetry is not followed)
LinkCtrlRest(sample) ==
    /\ ln_stage # "uart_down"
    /\ CtrlLoopRest(sample)
    /\ UNCHANGED <<gndVars, airVars, gndRxVars, linkVars>>

\* ground relay, loop() up to handleLoRaRx: the packet of the air relay
LinkGndRx(dt) ==
    /\ ln_stage = "radio_up"
    /\ GndLoopRxOctets(dt, ln_wire)
    /\ ln_stage' = "done"
    /\ ln_wire' = <<>>
    /\ UNCHANGED <<ctrlVars, airVars, ln_hist>>

LinkNext ==
    /\ \/ \E dt \in GndDeltas : LinkGndIdle(dt)
       \/ LinkGndService
       \/ \E line \in LinkLines : LinkSubmit(line)
       \/ \E dt \in AirDeltas : LinkAirBegin(dt)
       \/ LinkAirUart
       \/ LinkAirLoRa
       \/ \E r \in TxResults : LinkAirTx(r)
       \/ LinkAirShell
       \/ \E dt \in CtrlDeltas : LinkCtrlBegin(dt)
       \/ LinkCtrlPoll
       \/ \E sample \in TelemSamples : LinkCtrlRest(sample)
       \/ \E dt \in GndDeltas : LinkGndRx(dt)
    /\ UNCHANGED <<codecVars, valveVars, radioVars>>

\* C29: end to end, the Ack that comes back to the ground relay for a
\* delivered command of type T and sequence s has frame.seq = s and
\* acked_msg_type = T and deactivates the pending command; the air relay
\* puts on the UART the very octets of the command it received and on the
\* radio the very octets of the Ack the controller wrote
C29_AckMatchesEndToEnd ==
    [][/\ (ln_stage = "radio_down" /\ ln_stage' = "uart_down") =>
            /\ ln_wire' = ln_wire
            /\ ln_wire' = FrameOctets(ln_hist.cmd)
       /\ (ln_stage = "uart_down" /\ ln_stage' = "uart_up") =>
            /\ Len(c_uart_tx') = 1
            /\ c_uart_tx'[1].seq = ln_hist.cmd.seq
            /\ c_uart_tx'[1].p.acked_msg_type = ln_hist.cmd.msg_type
       /\ (ln_stage = "air_slot" /\ ln_stage' = "radio_up") =>
            ln_wire' = ln_hist.ack
       /\ (ln_stage = "radio_up" /\ ln_stage' = "done") =>
            /\ Len(gnd_hist'.rx) = 1
            /\ gnd_hist'.rx[1].msg_type = MSG_ACK
            /\ gnd_hist'.rx[1].seq = ln_hist.cmd.seq
            /\ gnd_hist'.rx[1].p.acked_msg_type = ln_hist.cmd.msg_type
            /\ g_pending.active
            /\ ~g_pending'.active
    ]_vars

\* C29 witness: the Ack of a ManualCmd with sequence 255 came back and
\* deactivated the pending command
C29_Witness ==
    /\ ln_stage = "done"
    /\ ln_hist.cmd.msg_type = MSG_MANUAL_CMD_V1
    /\ ln_hist.cmd.seq = 255
    /\ ~g_pending.active
    /\ gnd_hist.acked

\* C29 witness: the same for a Setpoints command with sequence 0x55, after
\* the first radio TX of the Ack returned BUSY
C29_WitnessAfterBusy ==
    /\ ln_stage = "done"
    /\ ln_hist.cmd.msg_type = MSG_SETPOINTS_V1
    /\ ln_hist.cmd.seq = SYNC1
    /\ air_hist.ticks = 3
    /\ ~g_pending.active


(***************************************************************************)
(* Air relay radio driver: LoRaLink::sendEx                                *)
(***************************************************************************)
\* BoardConfig::LORA_TX_GUARD_MS
LORA_TX_GUARD_MS == 5

\* TX_TIMEOUT_MS of sendEx
TX_TIMEOUT_MS == 800

\* the delays of hardResetRadio: 5 + 2 + 10 ms
HARD_RESET_MS == 17

\* the delays of applyConfig: 2 + 2 ms
APPLY_CONFIG_MS == 4

\* the longest packet the radio takes
LORA_MAX_LEN == 255

\* what the radio does with a packet put on air: TxDone raised after ms
\* milliseconds, or never, and then the version register read by reinit()
\* is valid or not
RadioAirs ==
    { [done |-> TRUE, ms |-> d, ver_ok |-> TRUE] : d \in {0, 3, 46} }
      \cup { [done |-> FALSE, ms |-> 0, ver_ok |-> v] : v \in BOOLEAN }

\* the arguments of sendEx: a payload pointer that is null or not, a length
RadioArgs ==
    { [payload |-> TRUE, len |-> n] : n \in {0, 1, LORA_MAX_LEN, LORA_MAX_LEN + 1} }
      \cup { [payload |-> FALSE, len |-> 1] }

\* milliseconds between two calls of sendEx
RadioDeltas == {1, 4}

\* variant: a refused attempt restarts the guard
sendEx_busyRestartsGuard(last_tx_ms, now, arg, air) ==
    LET none == [result |-> "FAIL", g_last_tx_ms |-> last_tx_ms, end |-> now,
                 transmitted |-> FALSE, reinit |-> FALSE]
    IN  IF ~arg.payload \/ arg.len = 0 THEN none
        ELSE IF arg.len > LORA_MAX_LEN THEN none
        ELSE IF Lt32(Sub32(now, last_tx_ms), u32(LORA_TX_GUARD_MS))
        THEN [none EXCEPT !.result = "BUSY", !.g_last_tx_ms = now]
        ELSE IF air.done
        THEN LET end == Add32(now, u32(air.ms))
             IN  [result |-> "OK", g_last_tx_ms |-> end, end |-> end,
                  transmitted |-> TRUE, reinit |-> FALSE]
        ELSE LET end == Add32(now, u32(TX_TIMEOUT_MS + 1 + HARD_RESET_MS
                                        + (IF air.ver_ok THEN APPLY_CONFIG_MS ELSE 0)))
             IN  [result |-> "FAIL", g_last_tx_ms |-> end, end |-> end,
                  transmitted |-> TRUE, reinit |-> TRUE]

\* LoRaLink::sendEx called at millis() = now: its result, g_last_tx_ms and
\* millis() when it returns, whether a packet was put on air, whether the
\* radio was reinitialised
sendEx(last_tx_ms, now, arg, air) ==
    LET none == [result |-> "FAIL", g_last_tx_ms |-> last_tx_ms, end |-> now,
                 transmitted |-> FALSE, reinit |-> FALSE]
    IN  IF ~arg.payload \/ arg.len = 0 THEN none
        ELSE IF arg.len > LORA_MAX_LEN THEN none
        ELSE IF Lt32(Sub32(now, last_tx_ms), u32(LORA_TX_GUARD_MS))
        THEN [none EXCEPT !.result = "BUSY"]
        ELSE IF air.done
        THEN LET end == Add32(now, u32(air.ms))
             IN  [result |-> "OK", g_last_tx_ms |-> end, end |-> end,
                  transmitted |-> TRUE, reinit |-> FALSE]
        ELSE LET end == Add32(now, u32(TX_TIMEOUT_MS + 1 + HARD_RESET_MS
                                        + (IF air.ver_ok THEN APPLY_CONFIG_MS ELSE 0)))
             IN  [result |-> "FAIL", g_last_tx_ms |-> end, end |-> end,
                  transmitted |-> TRUE, reinit |-> TRUE]

\* nothing observed of the driver yet
RadioHistInit ==
    [calls |-> 0, ticks |-> 0, result |-> "NONE", arg_ok |-> FALSE, timed_out |-> FALSE,
     sent |-> 0, reinits |-> 0, finished |-> FALSE, since |-> 0, refused |-> FALSE,
     after_refusal |-> FALSE]

\* the driver after begin(), sendEx never called
RadioIdle ==
    /\ rl_clock = AirClockStart
    /\ g_last_tx_ms = u32(0)
    /\ rl_hist = RadioHistInit

\* the driver after begin(), or 500 ms after a transmission that finished
\* shortly before millis() wraps
RadioInit ==
    \/ RadioIdle
    \/ /\ rl_clock = <<W16 - 1, W16 - 3>>
       /\ g_last_tx_ms = Sub32(rl_clock, u32(500))
       /\ rl_hist = [RadioHistInit EXCEPT !.finished = TRUE, !.since = RadioSinceCap,
                                          !.sent = 1, !.result = "OK", !.arg_ok = TRUE]

\* time passes between two calls
RadioWait(dt) ==
    /\ rl_hist.ticks < MaxRadioTicks
    /\ rl_clock' = Add32(rl_clock, u32(dt))
    /\ rl_hist' = [rl_hist EXCEPT
            !.ticks = @ + 1,
            !.since = IF @ + dt > RadioSinceCap THEN RadioSinceCap ELSE @ + dt]
    /\ UNCHANGED g_last_tx_ms

\* one call of sendEx, from its first line to its return
RadioSendEx(arg, air) ==
    /\ rl_hist.calls < MaxRadioCalls
    /\ LET r == sendEx(g_last_tx_ms, rl_clock, arg, air)
       IN  /\ g_last_tx_ms' = r.g_last_tx_ms
           /\ rl_clock' = r.end
           /\ rl_hist' = [rl_hist EXCEPT
                   !.calls = @ + 1,
                   !.result = r.result,
                   !.arg_ok = arg.payload /\ arg.len > 0 /\ arg.len <= LORA_MAX_LEN,
                   !.timed_out = r.transmitted /\ ~air.done,
                   !.sent = IF r.transmitted THEN @ + 1 ELSE @,
                   !.reinits = IF r.reinit THEN @ + 1 ELSE @,
                   !.finished = @ \/ r.transmitted,
                   !.since = IF r.transmitted THEN 0 ELSE @,
                   !.refused = ~r.transmitted /\ (@ \/ r.result = "BUSY"),
                   !.after_refusal = r.transmitted /\ rl_hist.refused]

\* the callers of the driver
RadioNext ==
    /\ \/ \E dt \in RadioDeltas : RadioWait(dt)
       \/ \E arg \in RadioArgs, air \in RadioAirs : RadioSendEx(arg, air)
    /\ UNCHANGED <<ctrlVars, gndVars, codecVars, valveVars, airVars, gndRxVars, linkVars>>


(***************************************************************************)
(* Manual commands from the shell of the ground relay to the controller    *)
(***************************************************************************)
\* lines typed on the ground relay: the two actuators with two values each,
\* and the other kinds of line
ManLines ==
    { [cmd |-> "set", arg |-> "heater", val |-> v] : v \in {40, 50} }
      \cup { [cmd |-> "set", arg |-> "valve", val |-> v] : v \in {0, 40} }
      \cup { [cmd |-> "mode", arg |-> "manual", val |-> 0],
             [cmd |-> "set", arg |-> "T", val |-> 40],
             [cmd |-> "lora", arg |-> "raw on", val |-> 0] }

\* the controller has handled what was sent to it and finished its loop()
ManGndTurn == ln_stage # "uart_down" /\ c_pc = "idle"

\* ground relay, loop() up to handleLoRaRx: no packet
ManGndIdle(dt) ==
    /\ ManGndTurn
    /\ GndLoopRxNone(dt)
    /\ UNCHANGED <<ctrlVars, airVars, gndRxVars, linkVars>>

\* ground relay, loop(): retry service and watchdog; a packet the radio
\* sends is the one that reaches the UART of the controller next
ManGndService(r) ==
    /\ ManGndTurn
    /\ GndService(r)
    /\ LET sent == gnd_hist'.tx = "OK"
       IN  /\ ln_stage' = IF sent THEN "uart_down" ELSE ln_stage
           /\ ln_wire' = IF sent THEN FrameOctets(g_pending.frame) ELSE ln_wire
    /\ UNCHANGED <<ctrlVars, airVars, gndRxVars, ln_hist>>

\* ground relay, loop(): one line typed; a packet the radio sends is the
\* one that reaches the UART of the controller next
ManGndLine(line, r) ==
    /\ ManGndTurn
    /\ GndShellLine(line, r)
    /\ LET sent == LineSubmits(line) /\ gnd_hist'.tx = "OK"
       IN  /\ ln_stage' = IF sent THEN "uart_down" ELSE ln_stage
           /\ ln_wire' = IF sent THEN FrameOctets(g_pending'.frame) ELSE ln_wire
           /\ ln_hist' = IF sent THEN [ln_hist EXCEPT !.cmd = g_pending'.frame] ELSE ln_hist
    /\ UNCHANGED <<ctrlVars, airVars, gndRxVars>>

\* ground relay, loop(): nothing typed
ManGndNoLine ==
    /\ ManGndTurn
    /\ GndShellNone
    /\ UNCHANGED <<ctrlVars, airVars, gndRxVars, linkVars>>

\* milliseconds between two loop() entries of the controller
ManCtrlDeltas == {100}

\* the sensor readings of the controller: one probe at 20 degrees
ManSamples == { s \in TelemSamples : s.temp_count = 1 }

\* the ground relay typing lines, the controller polling what was sent
ManNext ==
    /\ \/ \E dt \in GndDeltas : ManGndIdle(dt)
       \/ ManGndService("OK")
       \/ \E line \in ManLines, r \in {"OK", "BUSY"} : ManGndLine(line, r)
       \/ ManGndNoLine
       \/ \E dt \in ManCtrlDeltas : LinkCtrlBegin(dt)
       \/ LinkCtrlPoll
       \/ \E sample \in ManSamples : LinkCtrlRest(sample)
    /\ UNCHANGED <<codecVars, valveVars, radioVars>>

(***************************************************************************)
(* Specifications                                                          *)
(***************************************************************************)
\* every node after its setup, the radio of the air relay started, the codec
\* not exercised
Init == CtrlInit /\ GndInit /\ CodecIdle /\ ValveInit /\ AirInit /\ GndRxInit /\ LinkInit /\ RadioIdle /\ g_lora_ok = TRUE

\* the same with one codec input case chosen
InitCodec == CtrlInit /\ GndInit /\ CodecInit /\ ValveInit /\ AirInit /\ GndRxInit /\ LinkInit /\ RadioIdle /\ g_lora_ok = TRUE

\* the same before a valve run at a constant percent
InitValveRun == CtrlInit /\ GndInit /\ CodecIdle /\ ValveRunInit /\ AirInit /\ GndRxInit /\ LinkInit /\ RadioIdle /\ g_lora_ok = TRUE

\* the same with the radio of the air relay started or not
InitAir == CtrlInit /\ GndInit /\ CodecIdle /\ ValveInit /\ AirInit /\ GndRxInit /\ LinkInit /\ RadioIdle

\* the same with one input case of the parser chosen
InitParser == CtrlInit /\ GndInit /\ ParserInit /\ ValveInit /\ AirInit /\ GndRxInit /\ LinkInit /\ RadioIdle /\ g_lora_ok = TRUE

\* the radio driver of the air relay after begin() or late in a run
InitRadio == CtrlInit /\ GndInit /\ CodecIdle /\ ValveInit /\ AirInit /\ GndRxInit /\ LinkInit /\ RadioInit /\ g_lora_ok = TRUE

\* the radio driver of the air relay alone, called at any time with any arguments
SpecRadio == InitRadio /\ [][RadioNext]_vars

\* the parser alone: the cases of the codec and the length octets at the limits
SpecParser == InitParser /\ [][CodecNext]_vars

\* the frame codec alone: one input case per behaviour, fed octet by octet
SpecCodec == InitCodec /\ [][CodecNext]_vars

\* the valve driver alone: setOpeningPct called with any percent at any time
SpecValve == Init /\ [][ValveNext]_vars

\* the valve driver called at every tick of a 1 ms clock with one percent
SpecValveRun == InitValveRun /\ [][ValveRunNext]_vars

\* the air relay alone; the radio may have failed to start
SpecAir == InitAir /\ [][AirNext]_vars

\* the air relay alone, with the inputs of the downlink side
SpecAirDown == InitAir /\ [][AirDownNext]_vars

\* the air relay alone, telemetry frames arriving on the UART
SpecAirTelem == InitAir /\ [][AirTelemNext]_vars

\* the air relay alone, raw sniff mode switched on and off
SpecAirRaw == InitAir /\ [][AirRawNext]_vars

\* the ground relay alone, its radio packets given as octets
SpecGndRx == Init /\ [][GndRxNext]_vars

\* every node after its setup, the ground relay having sent commands before
InitLink ==
    CtrlInit /\ GndLinkInit /\ CodecIdle /\ ValveInit /\ AirInit /\ GndRxInit /\ LinkInit /\ RadioIdle
    /\ g_lora_ok = TRUE

\* the three nodes, one command and its Ack passing between them
SpecLink == InitLink /\ [][LinkNext]_vars

\* the controller alone
SpecCtrl == Init /\ [][CtrlNext]_vars

\* milliseconds between two loop() entries of a ground relay that is mostly idle
GndWdDeltas == {400, 2600}

\* radio packets of telemetry, read out in no time or in one millisecond
GndWdPackets == { rx \in GndRxPackets : rx.fs = <<GndTelemFrame>> }

\* the ground relay when no line is typed: radio RX, retry service, watchdog
GndWdNext ==
    /\ \/ \E dt \in GndWdDeltas : GndLoopRxNone(dt)
       \/ \E dt \in GndWdDeltas, rx \in GndWdPackets : GndLoopRxPacket(dt, rx)
       \/ GndService("OK")
       \/ GndShellNone
    /\ UNCHANGED <<ctrlVars, codecVars, valveVars, radioVars, airVars, gndRxVars, linkVars>>

\* milliseconds between two loop() entries, shorter than the ACK wait or equal to it
GndWaitDeltas == {200, 400}

\* the one command typed while the ACK wait is observed
GndWaitLines == { line \in GndShellLines : line.cmd = "mode" /\ line.arg = "manual" }

\* the ground relay with one kind of command and no radio packet: submission,
\* retry service, watchdog
GndWaitNext ==
    /\ \/ \E dt \in GndWaitDeltas : GndLoopRxNone(dt)
       \/ \E r \in TxResults : GndService(r)
       \/ \E line \in GndWaitLines, r \in TxResults : GndShellLine(line, r)
       \/ GndShellNone
    /\ UNCHANGED <<ctrlVars, codecVars, valveVars, radioVars, airVars, gndRxVars, linkVars>>

\* the ground relay alone, its loop() entered every 200 or 400 ms
SpecGndWait == Init /\ [][GndWaitNext]_vars

\* the ground relay with nothing typed on its shell, over longer times
SpecGndWd == Init /\ [][GndWdNext]_vars

\* the ground relay alone
SpecGnd == Init /\ [][GndNext]_vars

\* every node after its setup, the ground relay with a command waiting for its Ack
InitGndSwap ==
    CtrlInit /\ GndSwapInit /\ CodecIdle /\ ValveInit /\ AirInit /\ GndRxInit /\ LinkInit /\ RadioIdle
    /\ g_lora_ok = TRUE

\* the ground relay alone, from a state where a command is pending
SpecGndSwap == InitGndSwap /\ [][GndNext]_vars

\* the ground relay and the controller, the packets of the one given to the other
SpecManual == Init /\ [][ManNext]_vars

\* the ground relay, whose loop() is called again as long as it has work
SpecGndFair == Init /\ [][GndNext]_vars /\ WF_vars(GndNext)

\* the controller has finished at least one loop iteration and is between iterations
CtrlTickEnd == c_pc = "idle" /\ c_hist.ticks > 0

(***************************************************************************)
(* Controller: properties                                                  *)
(***************************************************************************)
\* the telemetry frames written by the last step
TelemFramesSent == { c_uart_tx[i] : i \in { j \in 1..Len(c_uart_tx) : c_uart_tx[j].msg_type = MSG_TELEM_V1 } }

\* C1: at the end of every controller tick, mode = SAFE implies that the
\* Outputs handed to the actuators are heater = 0, valve = 0, pump_T = 0 and
\* that the telemetry written in the tick carries heater = 0 and valve = 0,
\* whatever ManualCmd or Setpoints are stored.
C1_SafeOutputsZero ==
    (CtrlTickEnd /\ g_state.mode = "SAFE") =>
        /\ g_out.heater_power_pct = 0
        /\ g_out.valve_opening_pct = 0
        /\ g_out.pump_target_temp_c = 0
        /\ \A t \in TelemFramesSent : t.p.heater_power_pct = 0 /\ t.p.valve_opening_pct = 0

\* C1 witness: a tick ends in SAFE with telemetry written, although the mode
\* policy had computed non-zero heater and pump outputs from a stored ManualCmd.
C1_Witness ==
    /\ CtrlTickEnd
    /\ g_state.mode = "SAFE"
    /\ c_hist.computed.heater_power_pct # 0
    /\ c_hist.computed.pump_target_temp_c # 0
    /\ g_state.manual_cmd.has_heater_cmd
    /\ TelemFramesSent # {}

\* some channel below temp_count reads a finite value above 80
ClaimOverTemp ==
    \E i \in 1..g_telem.temp_count : g_telem.temp_c[i] # NaN /\ g_telem.temp_c[i] > 80

\* C2: at the end of every controller tick, link_alive = FALSE or a finite
\* temperature above MAX_TEMP (80) on a channel below temp_count implies
\* mode = SAFE, also when a ModeSwitch(MANUAL|AUTO) was handled in that tick.
C2_FaultImpliesSafe ==
    (CtrlTickEnd /\ (~g_state.link_alive \/ ClaimOverTemp)) => g_state.mode = "SAFE"

\* C2 witness: a tick that handled a ModeSwitch(MANUAL|AUTO) ends with the link
\* alive, the second channel too hot, and so in SAFE.
C2_Witness ==
    /\ CtrlTickEnd
    /\ c_hist.mode_request
    /\ g_state.link_alive
    /\ ClaimOverTemp
    /\ g_telem.temp_c[1] = 20
    /\ g_state.mode = "SAFE"

\* C3: (a) if link_alive holds when the safety stage runs and
\* now - last_link_heartbeat_ms > 1500 (modulo 2^32), the tick ends with
\* link_alive = FALSE and mode = SAFE; (b) as long as no tick ends more than
\* 1500 ms after the tick that handled the latest frame, link_alive is TRUE at
\* the end of every tick.
C3_LinkTimeout ==
    CtrlTickEnd =>
        /\ (c_hist.poll_link_alive
              /\ Gt32(Sub32(c_now_ms, g_state.last_link_heartbeat_ms), u32(1500)))
             => (~g_state.link_alive /\ g_state.mode = "SAFE")
        /\ (c_hist.ever_fed /\ c_hist.gap_ok) => g_state.link_alive

\* C3 witness: the link times out in a tick whose clock has wrapped past the
\* heartbeat stamp (now_ms is numerically below last_link_heartbeat_ms).
C3_Witness ==
    /\ CtrlTickEnd
    /\ c_hist.poll_link_alive
    /\ ~g_state.link_alive
    /\ g_state.mode = "SAFE"
    /\ Lt32(c_now_ms, g_state.last_link_heartbeat_ms)

\* C3 second witness state: a tick ends exactly 1500 ms after the last frame
\* with the link still alive.
C3_BoundaryAlive ==
    /\ CtrlTickEnd
    /\ c_hist.ever_fed
    /\ Sub32(c_now_ms, c_hist.last_frame_ms) = u32(1500)
    /\ g_state.link_alive

\* the step handled frame f during link poll
CtrlFrameStep == c_pc = "poll" /\ c_pc' = "poll"

\* C4: from mode = SAFE the mode becomes MANUAL or AUTO only in a step that
\* handles a ModeSwitch frame of payload length 1 with mode value 1 or 2.
\* Every handled frame sets link_alive and stamps last_link_heartbeat_ms with
\* the tick's now_ms; a frame that is no ModeSwitch (Heartbeat, ManualCmd,
\* Setpoints, unknown) leaves the mode as it is; and the rest of the tick
\* (sample, compute, safety) never moves the mode away from SAFE, so a fault
\* that has disappeared does not restore the earlier mode.
C4_SafeLeftOnlyByModeSwitch ==
    [][ /\ (g_state.mode = "SAFE" /\ g_state'.mode # "SAFE")
            => (CtrlFrameStep
                /\ c_hist'.last_frame.msg_type = 16
                /\ c_hist'.last_frame.payload_len = 1
                /\ c_hist'.last_frame.p.mode \in {1, 2})
        /\ CtrlFrameStep
            => (/\ g_state'.link_alive
                /\ g_state'.last_link_heartbeat_ms = c_now_ms
                /\ (c_hist'.last_frame.msg_type # 16 => g_state'.mode = g_state.mode))
      ]_vars

\* C4 witness: after SAFE was forced by link loss, a Heartbeat has just been
\* handled: the link is alive again and the mode is still SAFE.
C4_Witness ==
    /\ c_pc = "poll"
    /\ c_hist.last_frame.msg_type = MSG_HEARTBEAT
    /\ c_hist.forced = "link"
    /\ g_state.link_alive
    /\ g_state.last_link_heartbeat_ms = c_now_ms
    /\ g_state.mode = "SAFE"

\* bit k of a flags octet
ClaimBit(flags, k) == ((flags \div (2 ^ k)) % 2) = 1

\* presence flag k of the latest accepted ManualCmd, FALSE when there is none
ClaimLatestFlag(k) == c_hist.manual_p # NoPayload /\ ClaimBit(c_hist.manual_p.flags, k)

\* C5: at the end of every tick each Outputs field is non-zero only if
\* mode = MANUAL and its presence flag (bit0 heater, bit1 valve, bit2 pump) is
\* set in the flags of the latest accepted ManualCmd; the stored presence flags
\* are those of the latest accepted ManualCmd (replaced, not accumulated).
C5_NonZeroOnlyIfFlagged ==
    CtrlTickEnd =>
        /\ g_out.heater_power_pct # 0 => (g_state.mode = "MANUAL" /\ ClaimLatestFlag(0))
        /\ g_out.valve_opening_pct # 0 => (g_state.mode = "MANUAL" /\ ClaimLatestFlag(1))
        /\ g_out.pump_target_temp_c # 0 => (g_state.mode = "MANUAL" /\ ClaimLatestFlag(2))
        /\ g_state.manual_cmd.has_heater_cmd = ClaimLatestFlag(0)
        /\ g_state.manual_cmd.has_valve_cmd = ClaimLatestFlag(1)
        /\ g_state.manual_cmd.has_pump_temp_cmd = ClaimLatestFlag(2)

\* C5 witness: a MANUAL tick whose latest ManualCmd has only the valve flag:
\* the valve output is non-zero while the heater output is zero although a
\* non-zero heater value is stored.
C5_Witness ==
    /\ CtrlTickEnd
    /\ g_state.mode = "MANUAL"
    /\ c_hist.manual_p # NoPayload
    /\ c_hist.manual_p.flags = 2
    /\ g_state.manual_cmd.heater_power_pct # 0
    /\ g_out.heater_power_pct = 0
    /\ g_out.valve_opening_pct # 0

\* clamp(v, 0, 100)
ClaimClamp(v) == IF v < 0 THEN 0 ELSE IF v > 100 THEN 100 ELSE v

\* C6: in MANUAL mode, for the heater and valve fields whose presence flag is
\* set, the Outputs of the mode policy, the Outputs handed on and the values
\* carried in telemetry equal clamp(command, 0, 100); pump_T is passed through.
C6_ManualOutputsClamped ==
    (CtrlTickEnd /\ g_state.mode = "MANUAL") =>
        /\ g_state.manual_cmd.has_heater_cmd =>
             /\ c_hist.computed.heater_power_pct = ClaimClamp(g_state.manual_cmd.heater_power_pct)
             /\ g_out.heater_power_pct = ClaimClamp(g_state.manual_cmd.heater_power_pct)
             /\ \A t \in TelemFramesSent :
                  t.p.heater_power_pct = ClaimClamp(g_state.manual_cmd.heater_power_pct)
        /\ g_state.manual_cmd.has_valve_cmd =>
             /\ c_hist.computed.valve_opening_pct = ClaimClamp(g_state.manual_cmd.valve_opening_pct)
             /\ g_out.valve_opening_pct = ClaimClamp(g_state.manual_cmd.valve_opening_pct)
             /\ \A t \in TelemFramesSent :
                  t.p.valve_opening_pct = ClaimClamp(g_state.manual_cmd.valve_opening_pct)
        /\ g_state.manual_cmd.has_pump_temp_cmd =>
             g_out.pump_target_temp_c = g_state.manual_cmd.pump_target_temp_c


\* a ModeSwitch, ManualCmd or Setpoints frame whose payload length is not the
\* catalogue length (1, 13, 17), or a ModeSwitch whose mode is not 0, 1 or 2
ClaimRejected(f) ==
    \/ f.msg_type = 16 /\ f.payload_len # 1
    \/ f.msg_type = 16 /\ f.payload_len = 1 /\ f.p.mode \notin {0, 1, 2}
    \/ f.msg_type = 18 /\ f.payload_len # 13
    \/ f.msg_type = 17 /\ f.payload_len # 17

\* the step stamps the link: last_cmd_ms, link_alive, last_link_heartbeat_ms
ClaimLinkStamped ==
    /\ g_state'.last_cmd_ms = c_now_ms
    /\ g_state'.link_alive
    /\ g_state'.last_link_heartbeat_ms = c_now_ms

\* C17: a step that handles a ModeSwitch, ManualCmd or Setpoints frame of the
\* wrong payload length, or a ModeSwitch with a mode value other than 0, 1, 2,
\* writes exactly one Ack, with status ERR, the frame's sequence number and its
\* msg_type, and leaves mode, manual_cmd, setpoints, last_manual_ms and
\* last_setpoint_ms unchanged; it updates only last_cmd_ms, link_alive and
\* last_link_heartbeat_ms.
C17_RejectedFrameAckErr ==
    [][ (CtrlFrameStep /\ ClaimRejected(c_hist'.last_frame))
          => (/\ c_uart_tx' = << [msg_type |-> 32, seq |-> c_hist'.last_frame.seq,
                                  payload_len |-> 2,
                                  p |-> [acked_msg_type |-> c_hist'.last_frame.msg_type,
                                         status |-> 1]] >>
              /\ g_state'.mode = g_state.mode
              /\ g_state'.manual_cmd = g_state.manual_cmd
              /\ g_state'.setpoints = g_state.setpoints
              /\ g_state'.last_manual_ms = g_state.last_manual_ms
              /\ g_state'.last_setpoint_ms = g_state.last_setpoint_ms
              /\ ClaimLinkStamped)
      ]_vars

\* C17 witness: in MANUAL, a ModeSwitch with mode value 3 has just been
\* answered with Ack(ERR) and the mode is still MANUAL.
C17_Witness ==
    /\ c_pc = "poll"
    /\ c_hist.last_frame.msg_type = MSG_MODE_SWITCH
    /\ c_hist.last_frame.payload_len = 1
    /\ c_hist.last_frame.p.mode = 3
    /\ Len(c_uart_tx) = 1
    /\ c_uart_tx[1].msg_type = MSG_ACK
    /\ c_uart_tx[1].p.status = ACK_ERR
    /\ g_state.mode = "MANUAL"

\* C17, second case: a ManualCmd of the wrong length has just been answered.
C17_WitnessLength ==
    /\ c_pc = "poll"
    /\ c_hist.last_frame.msg_type = MSG_MANUAL_CMD_V1
    /\ c_hist.last_frame.payload_len # 13
    /\ Len(c_uart_tx) = 1
    /\ c_uart_tx[1].p.status = ACK_ERR

\* C18: a step that handles a Heartbeat frame or a frame of a type other than
\* ModeSwitch, Setpoints, ManualCmd (Telemetry and Ack included) writes no Ack
\* and leaves mode, manual_cmd and setpoints unchanged, while it sets
\* link_alive and stamps last_cmd_ms and last_link_heartbeat_ms with now.
C18_UnknownFrameSilent ==
    [][ (CtrlFrameStep /\ c_hist'.last_frame.msg_type \notin {16, 17, 18})
          => (/\ c_uart_tx' = <<>>
              /\ g_state'.mode = g_state.mode
              /\ g_state'.manual_cmd = g_state.manual_cmd
              /\ g_state'.setpoints = g_state.setpoints
              /\ ClaimLinkStamped)
      ]_vars

\* C18 witness: after the link was lost, a frame of type Ack (0x20) has just
\* been handled: nothing was written, the link is alive and stamped.
C18_Witness ==
    /\ c_pc = "poll"
    /\ c_hist.last_frame.msg_type = 32
    /\ c_hist.forced = "link"
    /\ c_uart_tx = <<>>
    /\ g_state.link_alive
    /\ g_state.last_cmd_ms = c_now_ms
    /\ g_state.last_link_heartbeat_ms = c_now_ms

\* C18, second case: a frame of type Telemetry (0x01) has just been handled.
C18_WitnessTelemetry ==
    /\ c_pc = "poll"
    /\ c_hist.last_frame.msg_type = 1
    /\ c_uart_tx = <<>>
    /\ g_state.link_alive

\* the step is the part of loop() that follows the link poll
CtrlRestStep == c_pc = "poll" /\ c_pc' = "idle"

\* C19: in a tick the link poll comes first and the telemetry TX last.
\* Telemetry is written if and only if now - last_telemetry_tx >= 200 ms, as
\* one frame; its heater and valve values are those of the Outputs after the
\* tick's safety clamp, and they reflect the frames handled in the tick's link
\* poll: zero when the last frame handled was ModeSwitch(SAFE), and the
\* commanded heater value when a ManualCmd with the heater flag was the last
\* frame handled and the tick ends in MANUAL.
C19_TelemetryReflectsTick ==
    [][ CtrlRestStep
          => (/\ (c_uart_tx' # <<>>)
                    <=> Ge32(Sub32(c_now_ms, g_last_telem_tx_ms), u32(200))
              /\ c_uart_tx' # <<>>
                    => (/\ Len(c_uart_tx') = 1
                        /\ c_uart_tx'[1].msg_type = 1
                        /\ c_uart_tx'[1].p.heater_power_pct = g_out'.heater_power_pct
                        /\ c_uart_tx'[1].p.valve_opening_pct = g_out'.valve_opening_pct
                        /\ g_last_telem_tx_ms' = c_now_ms)
              /\ (c_uart_tx' # <<>> /\ c_hist.last_frame.msg_type = 16
                     /\ c_hist.last_frame.payload_len = 1 /\ c_hist.last_frame.p.mode = 0)
                    => (/\ c_uart_tx'[1].p.heater_power_pct = 0
                        /\ c_uart_tx'[1].p.valve_opening_pct = 0)
              /\ (c_uart_tx' # <<>> /\ c_hist.last_frame.msg_type = 18
                     /\ c_hist.last_frame.payload_len = 13
                     /\ ClaimBit(c_hist.last_frame.p.flags, 0)
                     /\ g_state'.mode = "MANUAL")
                    => c_uart_tx'[1].p.heater_power_pct = c_hist.last_frame.p.heater_power_pct)
      ]_vars

\* C19 witness: a tick that handled a ModeSwitch(MANUAL) has written telemetry
\* carrying the non-zero heater value of the stored ManualCmd, which the
\* Outputs now hold.
C19_Witness ==
    /\ CtrlTickEnd
    /\ c_hist.mode_request
    /\ c_hist.telem_sent
    /\ g_state.mode = "MANUAL"
    /\ Len(c_uart_tx) = 1
    /\ c_uart_tx[1].msg_type = MSG_TELEM_V1
    /\ c_uart_tx[1].p.heater_power_pct # 0
    /\ c_uart_tx[1].p.heater_power_pct = g_out.heater_power_pct

\* C19, second case: a tick ended without telemetry, less than 200 ms after
\* the last telemetry TX.
C19_WitnessNotDue ==
    /\ CtrlTickEnd
    /\ ~c_hist.telem_sent
    /\ c_uart_tx = <<>>
    /\ Lt32(Sub32(c_now_ms, g_last_telem_tx_ms), u32(200))

(***************************************************************************)
(* Ground relay: properties                                                *)
(***************************************************************************)
\* the step is the retry service of a tick
GndServiceStep == gnd_pc = "svc" /\ gnd_pc' = "shell"

\* the step handles a shell line that submits a command
GndSubmitStep == gnd_pc = "shell" /\ g_tx_seq' # g_tx_seq

\* now - last_send_ms >= 400 (modulo 2^32) for the pending command
ClaimAckTimeoutElapsed == Ge32(Sub32(gnd_now_ms, g_pending.last_send_ms), u32(400))

\* C7: a TX attempt for the pending command that returns BUSY never counts as a
\* retry. In the retry service (before the first send or at retry time) it
\* leaves retry, last_send_ms, sent_once and active as they were; at submission
\* it leaves the new command with retry = 0, no send stamp, sent_once = FALSE
\* and active. The retry counter of a command changes only in a service step
\* whose TX attempt returned OK or FAIL after the ACK timeout, and then by one;
\* a submission starts the new command at retry = 0.
C7_BusyNeverCountsAsRetry ==
    [][ /\ (GndServiceStep /\ gnd_hist'.tx = "BUSY")
            => (/\ g_pending'.retry = g_pending.retry
                /\ g_pending'.last_send_ms = g_pending.last_send_ms
                /\ g_pending'.sent_once = g_pending.sent_once
                /\ g_pending'.active = g_pending.active)
        /\ (GndSubmitStep /\ gnd_hist'.tx = "BUSY")
            => (/\ g_pending'.retry = 0
                /\ g_pending'.last_send_ms = u32(0)
                /\ g_pending'.sent_once = FALSE
                /\ g_pending'.active)
        /\ (g_pending'.retry # g_pending.retry)
            => (\/ /\ GndServiceStep
                   /\ gnd_hist'.tx \in {"OK", "FAIL"}
                   /\ g_pending.sent_once
                   /\ ClaimAckTimeoutElapsed
                   /\ g_pending'.retry = g_pending.retry + 1
                \/ GndSubmitStep /\ g_pending'.retry = 0)
      ]_vars

\* C7 witness: the retry service has just been answered BUSY at retry time,
\* after one counted retry: the timeout has elapsed and retry is still 1.
C7_Witness ==
    /\ gnd_pc = "shell"
    /\ gnd_hist.tx = "BUSY"
    /\ g_pending.active
    /\ g_pending.sent_once
    /\ g_pending.retry = 1
    /\ ClaimAckTimeoutElapsed

\* C7, second case: BUSY in the retry service before the first send.
C7_WitnessBeforeFirstSend ==
    /\ gnd_pc = "shell"
    /\ gnd_hist.tx = "BUSY"
    /\ g_pending.active
    /\ ~g_pending.sent_once

\* C7, third case: BUSY at submission.
C7_WitnessAtSubmission ==
    /\ gnd_pc = "idle"
    /\ gnd_hist.tx = "BUSY"
    /\ g_pending.active
    /\ ~g_pending.sent_once
    /\ g_pending.busy_since_ms = gnd_clock

\* C8: for the pending command, retry never exceeds 3; at most 1 + 3 TX
\* attempts of it return OK or FAIL; one RETRY line is printed per increment of
\* retry; the FAIL line is printed at most once, exactly in the service step of
\* a tick in which the command is still active, has been sent, retry = 3 and
\* now - last_send_ms >= 400; after the FAIL line the command is inactive, and
\* the retry service of an inactive command attempts no TX and prints nothing.
C8_RetryBudget ==
    /\ [](/\ g_pending.retry <= 3
          /\ gnd_hist.n_sent <= 1 + 3
          /\ gnd_hist.n_retry_lines = g_pending.retry
          /\ gnd_hist.n_fail_lines <= 1
          /\ gnd_hist.n_fail_lines = 1 => (~g_pending.active /\ g_pending.retry = 3))
    /\ [][ /\ (LinesOfKind(gnd_lines', "CMD_FAIL") # {})
               <=> (/\ GndServiceStep
                    /\ g_pending.active
                    /\ g_pending.sent_once
                    /\ g_pending.retry = 3
                    /\ ClaimAckTimeoutElapsed)
           /\ (GndServiceStep /\ g_pending'.retry # g_pending.retry)
               => Cardinality(LinesOfKind(gnd_lines', "CMD_RETRY")) = 1
           /\ (GndServiceStep /\ ~g_pending.active)
               => (/\ gnd_hist'.tx = "NONE"
                   /\ LinesOfKind(gnd_lines', "CMD_RETRY") = {}
                   /\ LinesOfKind(gnd_lines', "CMD_FAIL") = {}
                   /\ g_pending' = g_pending)
         ]_vars

\* C8 witness: a command sent four times (once and three retries) has failed,
\* and a later tick has run its retry service without any TX attempt.
C8_Witness ==
    /\ gnd_pc = "shell"
    /\ gnd_hist.tx = "NONE"
    /\ gnd_lines = <<>>
    /\ ~g_pending.active
    /\ ~gnd_hist.acked
    /\ g_pending.retry = 3
    /\ gnd_hist.n_sent = 4
    /\ gnd_hist.n_retry_lines = 3
    /\ gnd_hist.n_fail_lines = 1

\* the positions of the Ack frames (type Ack, payload length 2) among fs
ClaimAcksIn(fs) ==
    { i \in 1..Len(fs) : fs[i].msg_type = MSG_ACK /\ fs[i].payload_len = 2 }

\* C9: when the ground relay decodes a packet holding one Ack frame (payload
\* length 2), it deactivates the PendingCommand and prints the
\* '[CMD] ACK received' line if and only if the PendingCommand is active,
\* ack.acked_msg_type = its msg_type and frame.seq = its seq, whatever the
\* status; otherwise the PendingCommand is left exactly as it was.
C9_AckMatching ==
    [][ (gnd_pc = "idle" /\ Cardinality(ClaimAcksIn(gnd_hist'.rx)) = 1)
          => LET f == gnd_hist'.rx[CHOOSE i \in ClaimAcksIn(gnd_hist'.rx) : TRUE]
                 match == /\ g_pending.active
                          /\ f.p.acked_msg_type = g_pending.msg_type
                          /\ f.seq = g_pending.seq
             IN  /\ match <=> (g_pending.active /\ ~g_pending'.active)
                 /\ match <=> (LinesOfKind(gnd_lines', "CMD_ACK_RECEIVED") # {})
                 /\ match => g_pending' = [g_pending EXCEPT !.active = FALSE]
                 /\ ~match => g_pending' = g_pending
      ]_vars

\* C9 witness: an Ack with status ERR has just deactivated the pending command.
C9_Witness ==
    /\ gnd_pc = "svc"
    /\ Len(gnd_hist.rx) = 1
    /\ gnd_hist.rx[1].msg_type = MSG_ACK
    /\ gnd_hist.rx[1].payload_len = 2
    /\ gnd_hist.rx[1].p.status = ACK_ERR
    /\ gnd_hist.cmd > 0
    /\ gnd_hist.acked
    /\ ~g_pending.active
    /\ LinesOfKind(gnd_lines, "CMD_ACK_RECEIVED") # {}

\* C9, second case: an Ack with the right sequence number and the wrong
\* message type has just been decoded and the command is still pending.
C9_WitnessNoMatch ==
    /\ gnd_pc = "svc"
    /\ Len(gnd_hist.rx) = 1
    /\ gnd_hist.rx[1].msg_type = MSG_ACK
    /\ gnd_hist.rx[1].payload_len = 2
    /\ gnd_hist.rx[1].seq = g_pending.seq
    /\ gnd_hist.rx[1].p.acked_msg_type # g_pending.msg_type
    /\ g_pending.active

\* the pending command of this state is no longer the pending command after
\* the step: it was deactivated, or another command took its place
ClaimPendingEnds ==
    /\ g_pending.active
    /\ (~g_pending'.active \/ g_pending'.seq # g_pending.seq)

\* the step prints the '[CMD] ACK received' line or the FAIL line
ClaimAckOrFailLine ==
    \/ LinesOfKind(gnd_lines', "CMD_ACK_RECEIVED") # {}
    \/ LinesOfKind(gnd_lines', "CMD_FAIL") # {}

\* C10 (as amended): given that loop() keeps being called, the clock advances
\* from tick to tick and the radio answers BUSY a bounded number of times, a
\* pending command does not stay pending for ever; it ceases to be the pending
\* command only by a matching Ack, by the FAIL line, or by the submission of a
\* newer command that takes its place. A command whose every TX attempt so far
\* was answered BUSY has no FAIL line and is still pending, unless a matching
\* Ack deactivated it.
C10_PendingEventuallyDestroyed ==
    /\ [](g_pending.active => <>(~g_pending.active))
    /\ [][ClaimPendingEnds => (ClaimAckOrFailLine \/ GndSubmitStep)]_vars
    /\ []((gnd_hist.cmd > 0 /\ gnd_hist.n_sent = 0)
            => (gnd_hist.n_fail_lines = 0 /\ (g_pending.active \/ gnd_hist.acked)))

\* C10 (as stated): the same, but a pending command ceases to be the pending
\* command only by a matching Ack or by the FAIL line.
C10_DestroyedOnlyByAckOrFail ==
    /\ [](g_pending.active => <>(~g_pending.active))
    /\ [][ClaimPendingEnds => ClaimAckOrFailLine]_vars
    /\ []((gnd_hist.cmd > 0 /\ gnd_hist.n_sent = 0)
            => (gnd_hist.n_fail_lines = 0 /\ (g_pending.active \/ gnd_hist.acked)))

\* C10 witness: a command whose first two TX attempts were answered BUSY was
\* then sent, never acknowledged, and has ended with the FAIL line.
C10_Witness ==
    /\ gnd_hist.cmd > 0
    /\ gnd_hist.busy = 2
    /\ ~g_pending.active
    /\ ~gnd_hist.acked
    /\ gnd_hist.n_fail_lines = 1
    /\ g_pending.busy_since_ms = u32(0)

\* C11: within a tick of the ground relay the radio RX, with its Ack matching,
\* runs before the retry service: when the RX of a tick has just matched an Ack
\* to the pending command, the retry service of that tick attempts no TX,
\* prints no RETRY and no FAIL line and leaves the PendingCmd as it is, even if
\* the ACK timeout has elapsed.
C11_NoRetryInAckTick ==
    [][ (gnd_pc = "svc" /\ LinesOfKind(gnd_lines, "CMD_ACK_RECEIVED") # {})
          => (/\ GndServiceStep
              /\ gnd_hist'.tx = "NONE"
              /\ LinesOfKind(gnd_lines', "CMD_RETRY") = {}
              /\ LinesOfKind(gnd_lines', "CMD_FAIL") = {}
              /\ g_pending' = g_pending)
      ]_vars

\* C11 witness: the RX of the tick has matched an Ack to a command that was
\* sent, whose ACK timeout has elapsed and whose retry budget is not spent; the
\* retry service of the tick comes next.
C11_Witness ==
    /\ gnd_pc = "svc"
    /\ LinesOfKind(gnd_lines, "CMD_ACK_RECEIVED") # {}
    /\ ~g_pending.active
    /\ g_pending.sent_once
    /\ g_pending.retry < 3
    /\ ClaimAckTimeoutElapsed

\* the step prints the watchdog's reinitialisation line
ClaimWatchdogReinit == LinesOfKind(gnd_lines', "LORA_REINIT") # {}

\* C13: the RX watchdog reinitialises the radio in a tick only if a packet has
\* been received since boot, no packet has been received during the last
\* 5000 ms (in particular none in this tick) and the previous reinitialisation
\* was at least 3000 ms ago; it then sets last_packet_ms to now.
C13_WatchdogOnlyAfterSilence ==
    [][ (GndServiceStep /\ ClaimWatchdogReinit)
          => (/\ gnd_hist.ever_pkt
              /\ ~gnd_hist.pkt
              /\ Ge32(Sub32(gnd_now_ms, gnd_hist.last_pkt_ms), u32(5000))
              /\ Ge32(Sub32(gnd_now_ms, g_last_lora_reinit_ms), u32(3000))
              /\ g_last_lora_pkt_ms' = gnd_now_ms)
      ]_vars

\* C13, what the code does: the watchdog reinitialises the radio only if a
\* packet has been received, the previous reinitialisation was at least
\* 3000 ms ago, and either 5000 ms have passed since the latest packet (or
\* the reinitialisation that followed it) or a packet was read in this very
\* tick after now_ms was taken; it then sets both stamps to now.
C13_WatchdogAsCoded ==
    [][ (GndServiceStep /\ ClaimWatchdogReinit)
          => (/\ gnd_hist.ever_pkt
              /\ Ge32(Sub32(gnd_now_ms, g_last_lora_reinit_ms), u32(3000))
              /\ \/ gnd_hist.pkt /\ Gt32(gnd_hist.last_pkt_ms, gnd_now_ms)
                 \/ ~gnd_hist.pkt /\ Ge32(Sub32(gnd_now_ms, g_last_lora_pkt_ms), u32(5000))
              /\ g_last_lora_pkt_ms' = gnd_now_ms
              /\ g_last_lora_reinit_ms' = gnd_now_ms)
      ]_vars

\* C13: the watchdog has just reinitialised the radio after 5000 ms of silence.
C13_WitnessSilence ==
    /\ gnd_pc = "shell"
    /\ LinesOfKind(gnd_lines, "LORA_REINIT") # {}
    /\ gnd_hist.ever_pkt
    /\ Ge32(Sub32(gnd_now_ms, gnd_hist.last_pkt_ms), u32(5000))
    /\ g_last_lora_pkt_ms = gnd_now_ms

\* C13: the watchdog has just reinitialised the radio in a tick whose packet
\* was read one millisecond after now_ms was taken.
C13_WitnessPacketTick ==
    /\ gnd_pc = "shell"
    /\ LinesOfKind(gnd_lines, "LORA_REINIT") # {}
    /\ gnd_hist.last_pkt_ms = Add32(gnd_now_ms, u32(1))
    /\ gnd_clock = gnd_hist.last_pkt_ms

\* C27, as claimed: the sequence number of a submitted command is never 0,
\* and the next one is one more, 1 after 255
C27_SeqSkipsZero ==
    [][GndSubmitStep =>
          /\ g_pending'.frame.seq # 0
          /\ g_tx_seq' = (IF g_tx_seq = 255 THEN 1 ELSE g_tx_seq + 1)
    ]_vars

\* C27, as coded: a submitted command is encoded with g_tx_seq, which then
\* goes up by one modulo 256; the first command after setup has sequence 0
C27_SeqAsCoded ==
    [][GndSubmitStep =>
          /\ g_pending'.frame.seq = g_tx_seq
          /\ g_tx_seq' = (g_tx_seq + 1) % U8
    ]_vars

\* the ManualCmd the controller holds after it stored the payload p
ClaimStoredManual(p) ==
    [has_heater_cmd |-> HasFlag(p.flags, MAN_FLAG_HEATER),
     heater_power_pct |-> p.heater_power_pct,
     has_valve_cmd |-> HasFlag(p.flags, MAN_FLAG_VALVE),
     valve_opening_pct |-> p.valve_opening_pct,
     has_pump_temp_cmd |-> HasFlag(p.flags, MAN_FLAG_PUMP),
     pump_target_temp_c |-> p.pump_target_temp_c]

\* the Outputs that carry out the stored ManualCmd m
ClaimManualOutputs(m) ==
    [heater_power_pct |-> IF m.has_heater_cmd THEN m.heater_power_pct ELSE 0,
     valve_opening_pct |-> IF m.has_valve_cmd THEN m.valve_opening_pct ELSE 0,
     pump_target_temp_c |-> IF m.has_pump_temp_cmd THEN m.pump_target_temp_c ELSE 0]

\* C30: a forced transition to SAFE and a ModeSwitch(SAFE) leave the stored
\* ManualCmd and its presence flags as they are (only a ManualCmd of the
\* exact length changes them); such a ManualCmd is stored and answered with
\* Ack(OK) in any mode; and a tick that ends in MANUAL has as Outputs the
\* stored manual command, also when it was stored before the mode was SAFE
C30_ManualCmdSurvivesSafe ==
    [][/\ (g_state'.manual_cmd # g_state.manual_cmd) =>
            (c_pc = "poll" /\ c_pc' = "poll" /\ IsManualCmd(c_hist'.last_frame))
       /\ (c_pc = "poll" /\ c_pc' = "poll" /\ IsManualCmd(c_hist'.last_frame)) =>
            /\ g_state'.manual_cmd = ClaimStoredManual(c_hist'.last_frame.p)
            /\ g_state'.mode = g_state.mode
            /\ c_uart_tx' = <<sendAck(MSG_MANUAL_CMD_V1, c_hist'.last_frame.seq, ACK_OK)>>
       /\ (c_pc = "poll" /\ c_pc' = "idle" /\ g_state'.mode = "MANUAL" /\ c_hist.manual_p # NoPayload) =>
            /\ g_state'.manual_cmd = ClaimStoredManual(c_hist.manual_p)
            /\ g_out' = ClaimManualOutputs(g_state'.manual_cmd)
    ]_vars

\* C30 witness: a ManualCmd was stored, the safety stage forced SAFE, and a
\* later tick with a ModeSwitch(MANUAL) and no ManualCmd ended in MANUAL with
\* the stored command as Outputs
C30_Witness ==
    /\ c_pc = "idle"
    /\ c_hist.safe_since = "forced"
    /\ c_hist.mode_request
    /\ g_state.mode = "MANUAL"
    /\ g_out = ClaimManualOutputs(g_state.manual_cmd)
    /\ g_out # OutputsZero

\* C30 witness: the same after a ModeSwitch(SAFE)
C30_WitnessSwitch ==
    /\ c_pc = "idle"
    /\ c_hist.safe_since = "switch"
    /\ c_hist.mode_request
    /\ g_state.mode = "MANUAL"
    /\ g_out = ClaimManualOutputs(g_state.manual_cmd)
    /\ g_out # OutputsZero

\* C30 witness: a ManualCmd was stored while the mode was SAFE
C30_WitnessStoredInSafe ==
    /\ c_pc = "poll"
    /\ IsManualCmd(c_hist.last_frame)
    /\ g_state.mode = "SAFE"
    /\ g_state.manual_cmd = ClaimStoredManual(c_hist.last_frame.p)


(***************************************************************************)
(* Ground relay: a submission while a command is pending                   *)
(***************************************************************************)
\* the lines of ls that report the end of a command: FAIL, or an Ack (matched or not)
ClaimEndLines(ls) ==
    { i \in 1..Len(ls) : ls[i].k \in {"CMD_FAIL", "CMD_ACK_RECEIVED", "ACK"} }

\* every Ack among fs answers the replaced command: its sequence number and type
ClaimAcksOfReplaced(fs) ==
    /\ \E i \in 1..Len(fs) : fs[i].msg_type = MSG_ACK
    /\ \A i \in 1..Len(fs) :
         (fs[i].msg_type = MSG_ACK /\ fs[i].payload_len = SIZEOF_Ack)
           => (/\ fs[i].seq = gnd_hist.replaced.seq
               /\ fs[i].p.acked_msg_type = gnd_hist.replaced.msg_type)

\* C31: a shell line that submits a command while a PendingCommand is active
\* replaces it whatever its state: the step prints neither a FAIL nor an ACK
\* line, and the new PendingCommand is active with the next sequence number,
\* retry = 0, no busy warning stamp, sent_once telling only whether the new
\* command's own first attempt returned OK or FAIL, and the busy timer started
\* only by that attempt. No later FAIL or ACK-received line names the replaced
\* command, and a packet whose Acks answer the replaced command leaves the new
\* PendingCommand as it is.
C31_NewCommandReplacesPending ==
    [][ /\ (GndSubmitStep /\ g_pending.active)
          => (/\ ClaimEndLines(gnd_lines') = {}
              /\ g_pending'.active
              /\ g_pending'.seq = g_tx_seq
              /\ g_pending'.seq # g_pending.seq
              /\ g_pending'.retry = 0
              /\ g_pending'.last_busy_warn_ms = u32(0)
              /\ g_pending'.sent_once = (gnd_hist'.tx \in {"OK", "FAIL"})
              /\ g_pending'.last_send_ms = (IF gnd_hist'.tx \in {"OK", "FAIL"} THEN gnd_clock ELSE u32(0))
              /\ g_pending'.busy_since_ms = (IF gnd_hist'.tx = "BUSY" THEN gnd_clock ELSE u32(0)))
        /\ (gnd_hist.replaced # NoReplaced)
          => (/\ \A i \in LinesOfKind(gnd_lines', "CMD_FAIL") \cup LinesOfKind(gnd_lines', "CMD_ACK_RECEIVED") :
                    gnd_lines'[i].seq # gnd_hist.replaced.seq
              /\ (gnd_pc = "idle" /\ ClaimAcksOfReplaced(gnd_hist'.rx))
                    => g_pending' = g_pending)
      ]_vars

\* a command that had been retried was replaced by one of the same type, and
\* the Ack of the replaced command has just been read: the new one is still active
C31_Witness ==
    /\ gnd_hist.replaced # NoReplaced
    /\ gnd_hist.replaced.retry > 0
    /\ gnd_hist.replaced.msg_type = g_pending.msg_type
    /\ gnd_pc = "svc"
    /\ gnd_hist.pkt
    /\ ClaimAcksOfReplaced(gnd_hist.rx)
    /\ g_pending.active
    /\ g_pending.retry = 0

\* a pending command that was never transmitted (BUSY) has been replaced
C31_WitnessNeverSent ==
    /\ gnd_hist.replaced # NoReplaced
    /\ gnd_hist.n_sent = 1
    /\ g_pending.sent_once
    /\ g_pending.busy_since_ms = u32(0)
    /\ gnd_hist.tx = "OK"
    /\ gnd_pc = "idle"


(***************************************************************************)
(* Ground relay: raw sniff mode and the pending command                    *)
(***************************************************************************)
\* the step reads a radio packet
ClaimPacketStep == gnd_pc = "idle" /\ gnd_hist'.pkt

\* C32: while raw sniff mode is on, a radio packet is printed but not decoded:
\* the step leaves the PendingCommand as it is, prints no ACK line, and still
\* stamps the RX watchdog reference with the time of reading. A PendingCommand
\* therefore stops being active in raw sniff mode only through the FAIL line,
\* after its CMD_MAX_RETRY retries, also when its Ack was among the packets.
C32_RawSniffMatchesNoAck ==
    [][ /\ (ClaimPacketStep /\ g_lora_raw)
          => (/\ g_pending' = g_pending
              /\ ClaimEndLines(gnd_lines') = {}
              /\ LinesOfKind(gnd_lines', "LORA_PAYLOAD") # {}
              /\ g_last_lora_pkt_ms' = gnd_clock'
              /\ gnd_hist'.acked = gnd_hist.acked)
        /\ (g_lora_raw /\ g_pending.active /\ ~g_pending'.active)
          => (/\ GndServiceStep
              /\ g_pending.retry = CMD_MAX_RETRY
              /\ LinesOfKind(gnd_lines', "CMD_FAIL") # {}
              /\ ~gnd_hist'.acked)
      ]_vars

\* the Ack of the pending command was read in raw sniff mode, and the command
\* has just ended with the FAIL line after its third retry
C32_Witness ==
    /\ g_lora_raw
    /\ gnd_hist.missed
    /\ gnd_pc = "shell"
    /\ ~g_pending.active
    /\ g_pending.retry = CMD_MAX_RETRY
    /\ LinesOfKind(gnd_lines, "CMD_FAIL") # {}
    /\ ~gnd_hist.acked

\* the Ack of the pending command has just been read in raw sniff mode
C32_WitnessAckRead ==
    /\ g_lora_raw
    /\ gnd_hist.missed
    /\ gnd_pc = "svc"
    /\ gnd_hist.pkt
    /\ g_pending.active
    /\ g_last_lora_pkt_ms = gnd_clock


(***************************************************************************)
(* Controller: the Ack of a ModeSwitch and the mode in effect              *)
(***************************************************************************)
\* one of the first temp_count temperatures is a number above MAX_TEMP
ClaimTooHot(telem) ==
    \E i \in 1..telem.temp_count :
        telem.temp_c[i] # NaN /\ telem.temp_c[i] > 80

\* the mode a ModeSwitch payload octet asks for
ClaimModeAsked(octet) == IF octet = 1 THEN "MANUAL" ELSE "AUTO"

\* C33: the Ack is written during link poll, before the safety stage. A
\* ModeSwitch of payload length 1 asking for MANUAL or AUTO is answered, in the
\* step that handles it, with Ack(OK) carrying its sequence number, and sets
\* the mode asked for; when the temperature sampled later in the same tick is
\* above MAX_TEMP the tick nevertheless ends with mode = SAFE, and the mode is
\* SAFE in every later state until a ModeSwitch(MANUAL or AUTO) is handled. So
\* Ack(OK) for a ModeSwitch does not imply that the requested mode is in effect.
C33_AckBeforeSafety ==
    [][ /\ (CtrlFrameStep /\ IsModeRequest(c_hist'.last_frame))
          => (/\ c_uart_tx' = <<[msg_type |-> 32, seq |-> c_hist'.last_frame.seq,
                                 payload_len |-> 2,
                                 p |-> [acked_msg_type |-> 16, status |-> 0]]>>
              /\ g_state'.mode = ClaimModeAsked(c_hist'.last_frame.p.mode))
        /\ (CtrlRestStep /\ ClaimTooHot(g_telem')) => g_state'.mode = "SAFE"
        /\ (CtrlRestStep /\ ClaimTooHot(g_telem') /\ c_hist.mode_request /\ g_state.mode # "SAFE")
          => c_hist'.forced = "temp"
        /\ (c_hist.forced = "temp" /\ ~(CtrlFrameStep /\ IsModeRequest(c_hist'.last_frame)))
          => (g_state'.mode = "SAFE" /\ c_hist'.forced = "temp")
      ]_vars

\* a tick that handled ModeSwitch(MANUAL or AUTO), answered with Ack(OK), has
\* ended in SAFE because of the temperature
C33_Witness ==
    /\ c_pc = "idle"
    /\ c_hist.mode_request
    /\ c_hist.forced = "temp"
    /\ ClaimTooHot(g_telem)
    /\ g_state.mode = "SAFE"
    /\ g_state.link_alive

\* a later tick without a ModeSwitch and with a normal temperature has ended
\* in SAFE as well
C33_WitnessLater ==
    /\ c_pc = "idle"
    /\ ~c_hist.mode_request
    /\ c_hist.forced = "temp"
    /\ ~ClaimTooHot(g_telem)
    /\ g_state.mode = "SAFE"
    /\ g_state.link_alive


(***************************************************************************)
(* Ground relay: when the ACK wait runs                                    *)
(***************************************************************************)
\* the lines of ls that count or end the retries
ClaimRetryLines(ls) == LinesOfKind(ls, "CMD_RETRY") \cup LinesOfKind(ls, "CMD_FAIL")

\* C34: the 400 ms ACK wait runs only once the command has been transmitted.
\* RETRY and FAIL lines are printed by the retry service only. While
\* sent_once = FALSE the service prints neither and leaves retry as it is,
\* whatever the time since the submission. Once sent_once = TRUE, a service
\* step that attempts a TX (whatever its result) or prints RETRY or FAIL has
\* now - last_send_ms >= 400 (modulo 2^32); and last_send_ms changes only in a
\* step whose TX attempt returned OK or FAIL, to the time of that attempt.
C34_AckWaitRunsOnceSent ==
    [][ /\ ~GndServiceStep => ClaimRetryLines(gnd_lines') = {}
        /\ (GndServiceStep /\ g_pending.active /\ ~g_pending.sent_once)
          => (/\ ClaimRetryLines(gnd_lines') = {}
              /\ g_pending'.retry = g_pending.retry
              /\ g_pending'.active)
        /\ (GndServiceStep /\ g_pending.active /\ g_pending.sent_once
              /\ (gnd_hist'.tx # "NONE" \/ ClaimRetryLines(gnd_lines') # {}))
          => Ge32(Sub32(gnd_now_ms, g_pending.last_send_ms), u32(400))
        /\ (g_pending'.last_send_ms # g_pending.last_send_ms /\ g_pending'.last_send_ms # u32(0))
          => (/\ gnd_hist'.tx \in {"OK", "FAIL"}
              /\ g_pending'.last_send_ms = (IF GndServiceStep THEN gnd_now_ms ELSE gnd_clock))
        /\ (g_pending'.active /\ gnd_hist'.tx \in {"OK", "FAIL"})
          => (/\ g_pending'.sent_once
              /\ g_pending'.last_send_ms = (IF GndServiceStep THEN gnd_now_ms ELSE gnd_clock))
      ]_vars

\* the command has been BUSY since its submission 400 ms ago or more: it was
\* never sent, nothing was printed and no retry counted
C34_Witness ==
    /\ gnd_pc = "shell"
    /\ gnd_hist.tx = "BUSY"
    /\ g_pending.active
    /\ ~g_pending.sent_once
    /\ Ge32(Sub32(gnd_now_ms, g_pending.busy_since_ms), u32(400))
    /\ g_pending.retry = 0
    /\ gnd_hist.n_retry_lines = 0
    /\ gnd_hist.n_fail_lines = 0

\* the service has just left a sent command alone, 200 ms after its last send
C34_WitnessWaiting ==
    /\ gnd_pc = "shell"
    /\ gnd_hist.tx = "NONE"
    /\ g_pending.active
    /\ g_pending.sent_once
    /\ Sub32(gnd_now_ms, g_pending.last_send_ms) = u32(200)
    /\ gnd_lines = <<>>

\* a retry was made 600 ms after the last send, the attempt at 400 ms having
\* returned BUSY
C34_WitnessRetryAfterBusy ==
    /\ gnd_pc = "shell"
    /\ gnd_hist.tx = "OK"
    /\ gnd_hist.busy > 0
    /\ g_pending.retry = 1
    /\ g_pending.last_send_ms = gnd_now_ms
    /\ gnd_hist.n_retry_lines = 1
    /\ gnd_hist.n_sent = 2


(***************************************************************************)
(* Air relay: the TX scheduler                                             *)
(***************************************************************************)
\* the step is the TX service of a loop iteration
ClaimAirTxStep == a_pc = "tx" /\ a_pc' = "shell"

\* the telemetry slot holds a frame and its period has passed
ClaimTelemDue ==
    /\ g_tx_telem_buf # <<>>
    /\ Ge32(Sub32(a_now_ms, g_last_telem_lora_ms), u32(500))

\* C35: the TX service gives at most one packet to the radio per loop
\* iteration. When the high-priority slot is non-empty at the start of the
\* service, whatever the radio answers (OK, BUSY or FAIL), the only packet it
\* may give is that slot's, and the telemetry slot and the time of the last
\* telemetry TX are left as they are; so a telemetry packet is given to the
\* radio only when the high-priority slot is empty.
C35_OneTxHighPriorityFirst ==
    [][ ClaimAirTxStep
          => (/\ Len(air_hist'.attempts) <= 1
              /\ (g_tx_hi_buf # <<>>)
                   => (/\ \A i \in 1..Len(air_hist'.attempts) : air_hist'.attempts[i] = g_tx_hi_buf
                       /\ air_hist'.attempts # <<g_tx_telem_buf>>
                       /\ g_tx_telem_buf' = g_tx_telem_buf
                       /\ g_last_telem_lora_ms' = g_last_telem_lora_ms)
              /\ (\E i \in 1..Len(air_hist'.attempts) : air_hist'.attempts[i] = g_tx_telem_buf)
                   => g_tx_hi_buf = <<>>)
      ]_vars

\* telemetry was due while an Ack was in the high-priority slot, and the TX
\* of the Ack has just returned BUSY: the telemetry is still waiting
C35_Witness ==
    /\ a_pc = "shell"
    /\ g_lora_ok
    /\ air_hist.result = "BUSY"
    /\ air_hist.attempts = <<g_tx_hi_buf>>
    /\ ClaimHoldsAck(g_tx_hi_buf)
    /\ ClaimTelemDue

\* the same with the Ack sent (OK): the telemetry waits for a later iteration
C35_WitnessOk ==
    /\ a_pc = "shell"
    /\ g_lora_ok
    /\ air_hist.result = "OK"
    /\ Len(air_hist.attempts) = 1
    /\ ClaimHoldsAck(air_hist.attempts[1])
    /\ g_tx_hi_buf = <<>>
    /\ ClaimTelemDue

\* telemetry was given to the radio, the high-priority slot being empty
C35_WitnessTelemSent ==
    /\ a_pc = "shell"
    /\ air_hist.result = "OK"
    /\ Len(air_hist.attempts) = 1
    /\ air_hist.attempts[1][4] = MSG_TELEM_V1
    /\ g_tx_hi_buf = <<>>


(***************************************************************************)
(* Air relay: what empties a TX slot                                       *)
(***************************************************************************)
\* the step is the handleUartRx call of a loop iteration
ClaimAirUartStep == a_pc = "uart" /\ a_pc' = "lora"

\* the frames of a batch that go to the telemetry slot
ClaimTelemOf(fs) == SelectSeq(fs, LAMBDA f : f.msg_type = MSG_TELEM_V1)

\* the slot holds something that starts with the two sync octets
ClaimWellFormed(buf) == Len(buf) >= 3 /\ buf[1] = 85 /\ buf[2] = 170

\* C36: a well-formed frame leaves a TX slot only when a radio TX of that very
\* frame returns OK, which empties the slot, or when handleUartRx stores a
\* newer frame of the same class over it. A TX service whose attempt returns
\* BUSY or FAIL leaves both slots and the time of the last telemetry TX as
\* they were, and the high-priority frame is given to the radio again in every
\* later TX service while it is in the slot. The time of the last telemetry
\* TX changes only when a TX of the telemetry slot returns OK, to that tick's
\* now_ms.
C36_SlotKeptUntilSent ==
    [][ /\ (ClaimWellFormed(g_tx_hi_buf) /\ g_tx_hi_buf' # g_tx_hi_buf)
          => \/ /\ ClaimAirTxStep
                /\ air_hist'.result = "OK"
                /\ air_hist'.attempts = <<g_tx_hi_buf>>
                /\ g_tx_hi_buf' = <<>>
             \/ /\ ClaimAirUartStep
                /\ ClaimHiOf(air_hist'.batch) # <<>>
        /\ (ClaimWellFormed(g_tx_telem_buf) /\ g_tx_telem_buf' # g_tx_telem_buf)
          => \/ /\ ClaimAirTxStep
                /\ air_hist'.result = "OK"
                /\ air_hist'.attempts = <<g_tx_telem_buf>>
                /\ g_tx_telem_buf' = <<>>
                /\ g_last_telem_lora_ms' = a_now_ms
             \/ /\ ClaimAirUartStep
                /\ ClaimTelemOf(air_hist'.batch) # <<>>
        /\ (ClaimAirTxStep /\ air_hist'.result \in {"BUSY", "FAIL"})
          => (/\ g_tx_hi_buf' = g_tx_hi_buf
              /\ g_tx_telem_buf' = g_tx_telem_buf
              /\ g_last_telem_lora_ms' = g_last_telem_lora_ms
              /\ air_hist'.attempts \in {<<g_tx_hi_buf>>, <<g_tx_telem_buf>>})
        /\ (ClaimAirTxStep /\ g_lora_ok /\ ClaimWellFormed(g_tx_hi_buf))
          => air_hist'.attempts = <<g_tx_hi_buf>>
        /\ (g_last_telem_lora_ms' # g_last_telem_lora_ms)
          => (/\ ClaimAirTxStep
              /\ air_hist'.result = "OK"
              /\ air_hist'.attempts = <<g_tx_telem_buf>>
              /\ g_last_telem_lora_ms' = a_now_ms
              /\ g_tx_telem_buf' = <<>>)
      ]_vars

\* a telemetry frame whose TX has just returned BUSY is still in its slot,
\* and the time of the last telemetry TX has not moved
C36_Witness ==
    /\ a_pc = "shell"
    /\ air_hist.result = "BUSY"
    /\ air_hist.attempts = <<g_tx_telem_buf>>
    /\ ClaimWellFormed(g_tx_telem_buf)
    /\ g_tx_telem_buf[4] = MSG_TELEM_V1
    /\ g_tx_hi_buf = <<>>
    /\ g_last_telem_lora_ms # a_now_ms

\* an Ack whose TX has just returned FAIL is still in the high-priority slot
C36_WitnessHiKept ==
    /\ a_pc = "shell"
    /\ air_hist.result = "FAIL"
    /\ air_hist.attempts = <<g_tx_hi_buf>>
    /\ ClaimHoldsAck(g_tx_hi_buf)


(***************************************************************************)
(* Air relay: the telemetry rate and the frame that is sent                *)
(***************************************************************************)
\* the TX service of this step gave telemetry to the radio, which returned OK
ClaimTelemSentOk ==
    /\ ClaimAirTxStep
    /\ air_hist'.result = "OK"
    /\ Len(air_hist'.attempts) = 1
    /\ air_hist'.attempts[1][4] = 1

\* C37: any two telemetry transmissions that returned OK are at least
\* LORA_TELEM_PERIOD = 500 ms apart on the tick clock (now_ms, modulo 2^32):
\* when a telemetry TX returns OK and one had returned OK before, now_ms minus
\* the now_ms of that one is 500 or more. The telemetry frame given to the
\* radio is the latest telemetry frame parsed from the controller UART before
\* the transmission; older ones that were waiting have been overwritten.
C37_TelemetryRateAndLatest ==
    [][ ClaimTelemSentOk
          => (/\ air_hist.telem_ok
                   => Ge32(Sub32(a_now_ms, air_hist.telem_ok_ms), u32(500))
              /\ air_hist'.attempts = <<air_hist.latest_telem>>)
      ]_vars

\* a second telemetry TX has returned OK exactly 500 ms after the first, a
\* newer frame having replaced a different, older one in the slot
C37_Witness ==
    /\ a_pc = "shell"
    /\ air_hist.result = "OK"
    /\ air_hist.sent[4] = MSG_TELEM_V1
    /\ air_hist.telem_ok
    /\ air_hist.telem_ok_ms = a_now_ms
    /\ a_now_ms = Add32(AirClockStart, u32(540))
    /\ air_hist.sent = air_hist.latest_telem
    /\ air_hist.overwritten # <<>>
    /\ air_hist.overwritten # air_hist.sent

\* 40 ms after a telemetry TX that returned OK a new frame waits in the slot
\* and is not given to the radio
C37_WitnessHeldBack ==
    /\ a_pc = "shell"
    /\ g_lora_ok
    /\ air_hist.telem_ok
    /\ Sub32(a_now_ms, air_hist.telem_ok_ms) = u32(40)
    /\ g_tx_telem_buf # <<>>
    /\ g_tx_hi_buf = <<>>
    /\ air_hist.attempts = <<>>


(***************************************************************************)
(* Frame codec: when the parser emits and when it resets                   *)
(***************************************************************************)
\* the step feeds one octet to the parser
ClaimFeedStep == cd_fed' = cd_fed + 1

\* the step emits a frame
ClaimEmits == Len(cd_out') = Len(cd_out) + 1

\* the octet fed completes the body
ClaimCompletes ==
    cd_parser.state_ = "WAIT_BODY" /\ Len(cd_parser.body_) + 1 = cd_parser.len_

\* the body completed by the octet fed carries the CRC-16 of the length octet
\* and of its own octets before the CRC, low octet first
ClaimBodyCrcOk ==
    LET body == Append(cd_parser.body_, Head(cd_in))
        n == cd_parser.len_
    IN  crc16_modbus(<<n>> \o SubSeq(body, 1, n - 2)) = body[n - 1] + 256 * body[n]

\* the parser as reset: WAIT_SYNC1, body position 0
ClaimParserReset == [state_ |-> "WAIT_SYNC1", len_ |-> 0, body_ |-> <<>>]

\* C38: a frame is emitted only from WAIT_BODY, on the octet that completes a
\* body whose CRC matches, and every such octet emits one. A second sync
\* octet other than 0xAA, a length octet below 4 or above 224, and a CRC
\* mismatch at completion put the parser back in WAIT_SYNC1 without emitting;
\* a length octet from 4 to 224 starts a body at position 0. After every
\* emission the parser is in WAIT_SYNC1 with its body position reset. The
\* body position stays below the length while in WAIT_BODY and never exceeds
\* the body buffer size of 224.
C38_ParserEmitsAndResets ==
    [][ ClaimFeedStep
          => (/\ ClaimEmits <=> (ClaimCompletes /\ ClaimBodyCrcOk)
              /\ ClaimEmits => cd_parser' = ClaimParserReset
              /\ (cd_parser.state_ = "WAIT_SYNC2" /\ Head(cd_in) # 170)
                   => (cd_parser' = ClaimParserReset /\ ~ClaimEmits)
              /\ (cd_parser.state_ = "WAIT_LEN" /\ (Head(cd_in) < 4 \/ Head(cd_in) > 224))
                   => (cd_parser' = ClaimParserReset /\ ~ClaimEmits)
              /\ (cd_parser.state_ = "WAIT_LEN" /\ Head(cd_in) >= 4 /\ Head(cd_in) <= 224)
                   => cd_parser' = [state_ |-> "WAIT_BODY", len_ |-> Head(cd_in), body_ |-> <<>>]
              /\ (ClaimCompletes /\ ~ClaimBodyCrcOk)
                   => (cd_parser' = ClaimParserReset /\ ~ClaimEmits)
              /\ Len(cd_parser'.body_) <= 224
              /\ cd_parser'.state_ = "WAIT_BODY" => Len(cd_parser'.body_) < cd_parser'.len_
              /\ cd_parser'.state_ # "WAIT_BODY" => Len(cd_parser'.body_) = 0)
      ]_vars

\* a body of 224 octets has been completed and emitted, and the parser is reset
C38_Witness ==
    /\ cd_fed = 227
    /\ Len(cd_out) = 1
    /\ cd_out[1].at = 227
    /\ cd_out[1].frame.payload_len = 220
    /\ cd_parser = ClaimParserReset

\* the length octet 225 has just been refused
C38_WitnessTooLong ==
    /\ cd_case.kind = "length"
    /\ cd_case.garbage[3] = 225
    /\ cd_fed = 3
    /\ cd_parser = ClaimParserReset
    /\ cd_out = <<>>

\* the length octet 3 was refused and the frame behind it has been emitted
C38_WitnessTooShort ==
    /\ cd_case.kind = "length"
    /\ cd_case.garbage[3] = 3
    /\ cd_in = <<>>
    /\ Len(cd_out) = 1
    /\ cd_parser = ClaimParserReset

\* a body whose CRC does not match has just been completed
C38_WitnessCrcMismatch ==
    /\ cd_case.kind = "flip"
    /\ cd_case.flip[1] > 3
    /\ cd_in = <<>>
    /\ cd_out = <<>>
    /\ cd_parser = ClaimParserReset
    /\ cd_fed = Len(cd_case.f.payload) + 7


(***************************************************************************)
(* Air relay radio driver: the TX guard and the three results              *)
(***************************************************************************)
\* the step is one call of sendEx
ClaimSendExStep == rl_hist'.calls = rl_hist.calls + 1

\* the call has a payload of 1 to 255 octets
ClaimTxArgsOk == rl_hist'.arg_ok

\* the call starts less than 5 ms after the previous transmission finished
ClaimInsideGuard == rl_hist.finished /\ rl_hist.since < 5

\* the call puts a packet on air
ClaimOnAir == rl_hist'.sent = rl_hist.sent + 1

\* C39: a TX attempt with a payload of 1 to 255 octets that starts less than
\* 5 ms after the previous transmission finished (with OK or with the TX-done
\* timeout) returns BUSY and puts nothing on air. A BUSY result leaves the
\* guard where it was: the time of the last transmission is not changed and
\* an attempt 5 ms or more after that transmission is not refused, whatever
\* was refused in between. A TX-done timeout returns FAIL after one
\* reinitialisation of the radio and restarts the guard. OK is returned
\* exactly for a packet put on air whose TX-done was seen, BUSY exactly for a
\* refused attempt with valid arguments, FAIL exactly for invalid arguments
\* and for the timeout.
C39_TxGuardAndResults ==
    [][ ClaimSendExStep
          => (/\ (ClaimTxArgsOk /\ ClaimInsideGuard)
                   => (rl_hist'.result = "BUSY" /\ ~ClaimOnAir)
              /\ rl_hist'.result = "BUSY"
                   => (/\ g_last_tx_ms' = g_last_tx_ms
                       /\ rl_clock' = rl_clock
                       /\ rl_hist'.since = rl_hist.since
                       /\ ~ClaimOnAir
                       /\ rl_hist'.reinits = rl_hist.reinits)
              /\ (ClaimTxArgsOk /\ rl_hist.finished /\ rl_hist.since >= 5)
                   => (rl_hist'.result # "BUSY" /\ ClaimOnAir)
              /\ rl_hist'.timed_out
                   => (/\ rl_hist'.result = "FAIL"
                       /\ rl_hist'.reinits = rl_hist.reinits + 1
                       /\ g_last_tx_ms' = rl_clock'
                       /\ rl_hist'.since = 0)
              /\ rl_hist'.result \in {"OK", "BUSY", "FAIL"}
              /\ rl_hist'.result = "OK" <=> (ClaimOnAir /\ ~rl_hist'.timed_out)
              /\ rl_hist'.result = "BUSY" <=> (ClaimTxArgsOk /\ ~ClaimOnAir)
              /\ rl_hist'.result = "FAIL" <=> (~ClaimTxArgsOk \/ rl_hist'.timed_out)
              /\ rl_hist'.result = "OK" => g_last_tx_ms' = rl_clock')
      ]_vars

\* an attempt 4 ms after a transmission that ended with OK has been refused
C39_Witness ==
    /\ rl_hist.result = "BUSY"
    /\ rl_hist.finished
    /\ rl_hist.since = 4
    /\ rl_hist.reinits = 0
    /\ rl_hist.sent = 1
    /\ rl_hist.calls = 2

\* an attempt inside the guard that follows a TX-done timeout has been refused
C39_WitnessAfterTimeout ==
    /\ rl_hist.result = "BUSY"
    /\ rl_hist.since = 1
    /\ rl_hist.reinits = 1
    /\ rl_hist.sent = 1

\* a packet has been sent 5 ms after the last transmission, an attempt in
\* between having been refused
C39_WitnessGuardNotRestarted ==
    /\ rl_hist.result = "OK"
    /\ rl_hist.after_refusal
    /\ rl_hist.calls = 3
    /\ rl_hist.sent = 2
    /\ rl_hist.ticks = 2
    /\ rl_hist.since = 0

\* a TX-done timeout has just returned FAIL
C39_WitnessTimeout ==
    /\ rl_hist.result = "FAIL"
    /\ rl_hist.timed_out
    /\ rl_hist.reinits = 1
    /\ g_last_tx_ms = rl_clock

\* a transmission has finished after millis() wrapped, and the next attempt
\* 4 ms later has been refused
C39_WitnessWrap ==
    /\ rl_hist.result = "BUSY"
    /\ rl_clock[1] = 0
    /\ g_last_tx_ms[1] = 0
    /\ rl_hist.sent = 2
    /\ rl_hist.since = 4


(***************************************************************************)
(* Manual commands: the presence flags of the ground relay accumulate      *)
(***************************************************************************)
\* the ManualCmd payload the shell has built from the lines typed so far:
\* each actuator present once its line was typed, with the latest value
ClaimManualOf(heater, valve) ==
    [flags |-> (IF heater # NoValue THEN 1 ELSE 0) + (IF valve # NoValue THEN 2 ELSE 0),
     heater_power_pct |-> IF heater # NoValue THEN heater ELSE 0,
     valve_opening_pct |-> IF valve # NoValue THEN valve ELSE 0,
     pump_target_temp_c |-> 0]

\* the step handles one line of the shell
ClaimLineStep == gnd_pc = "shell" /\ gnd_hist'.events = gnd_hist.events + 1

\* the step submits a ManualCmd
ClaimManualSubmitted ==
    g_tx_seq' # g_tx_seq /\ g_pending'.msg_type = MSG_MANUAL_CMD_V1

\* the controller handles a ManualCmd frame that carries the sequence number
\* of the command the ground relay submitted last
ClaimLatestManualPolled ==
    /\ c_pc = "poll" /\ c_pc' = "poll"
    /\ IsManualCmd(c_hist'.last_frame)
    /\ g_pending.msg_type = MSG_MANUAL_CMD_V1
    /\ c_hist'.last_frame.seq = g_pending.seq

\* C40: the presence flags of g_man only accumulate. No line of the shell
\* clears a flag that is set; once 'set heater' or 'set valve' was typed,
\* g_man holds that flag and the latest value typed for that actuator; every
\* ManualCmd frame submitted is a copy of g_man, and so is every frame kept
\* for a retry. When the controller handles the ManualCmd submitted last, it
\* stores has_heater_cmd and has_valve_cmd exactly for the actuators whose
\* lines were typed so far, each with its latest value.
C40_ManualFlagsAccumulate ==
    [][ /\ ClaimLineStep
          => (/\ HasFlag(g_man.flags, MAN_FLAG_HEATER) => HasFlag(g_man'.flags, MAN_FLAG_HEATER)
              /\ HasFlag(g_man.flags, MAN_FLAG_VALVE) => HasFlag(g_man'.flags, MAN_FLAG_VALVE)
              /\ ClaimManualSubmitted => g_pending'.frame.p = g_man')
        /\ g_man' = ClaimManualOf(gnd_hist'.set_heater, gnd_hist'.set_valve)
        /\ (g_pending'.active /\ g_pending'.msg_type = MSG_MANUAL_CMD_V1)
             => (/\ HasFlag(g_man'.flags, MAN_FLAG_HEATER)
                      => HasFlag(g_pending'.frame.p.flags, MAN_FLAG_HEATER)
                 /\ HasFlag(g_man'.flags, MAN_FLAG_VALVE)
                      => HasFlag(g_pending'.frame.p.flags, MAN_FLAG_VALVE))
        /\ ClaimLatestManualPolled
             => g_state'.manual_cmd =
                  [has_heater_cmd |-> gnd_hist.set_heater # NoValue,
                   heater_power_pct |-> IF gnd_hist.set_heater # NoValue
                                        THEN gnd_hist.set_heater ELSE 0,
                   has_valve_cmd |-> gnd_hist.set_valve # NoValue,
                   valve_opening_pct |-> IF gnd_hist.set_valve # NoValue
                                         THEN gnd_hist.set_valve ELSE 0,
                   has_pump_temp_cmd |-> FALSE,
                   pump_target_temp_c |-> 0]
      ]_vars

\* 'set heater 50' and then 'set valve 40' were typed, and the controller has
\* just handled the second command: both flags, both values
C40_Witness ==
    /\ gnd_hist.set_heater = 50
    /\ gnd_hist.set_valve = 40
    /\ g_tx_seq = 2
    /\ g_pending.seq = 1
    /\ c_pc = "poll"
    /\ IsManualCmd(c_hist.last_frame)
    /\ c_hist.last_frame.seq = 1
    /\ g_state.manual_cmd.has_heater_cmd
    /\ g_state.manual_cmd.heater_power_pct = 50
    /\ g_state.manual_cmd.has_valve_cmd
    /\ g_state.manual_cmd.valve_opening_pct = 40

\* 'set valve 40' and then 'set heater 40' were typed: the frame kept for the
\* second command carries the valve too
C40_WitnessValveFirst ==
    /\ g_pending.seq = 1
    /\ g_pending.msg_type = MSG_MANUAL_CMD_V1
    /\ g_pending.frame.p = [flags |-> 3, heater_power_pct |-> 40, valve_opening_pct |-> 40,
                            pump_target_temp_c |-> 0]
    /\ gnd_hist.set_heater = 40

\* a line of another kind was typed after 'set heater 50': the flag is kept
C40_WitnessOtherLine ==
    /\ gnd_hist.set_heater = 50
    /\ gnd_hist.events = 2
    /\ g_pending.msg_type = MSG_SETPOINTS_V1
    /\ g_man.flags = 1
    /\ g_man.heater_power_pct = 50

====
